---- MODULE Spec2Model ----
(***************************************************************************)
(* POLI QA overlay: the Checklist Store (QAContext) and its initialization *)
(* from the persisted document (qaStorage).                                *)
(*                                                                         *)
(* Optional fields (notes?, testedAt?, fixedAt?, completedAt?) and the     *)
(* nullable currentSession are modelled as sequences of length at most 1:  *)
(* <<>> is undefined/null, <<v>> is the value v.                           *)
(* Date.now() is the variable now; ids `bug_${Date.now()}` and             *)
(* `session_${Date.now()}` are modelled by the timestamp they embed.       *)
(* writes logs the localStorage writes of the saveQAState call under       *)
(* study. The functions of the CLI's router parser take their argument     *)
(* from input and leave their result in output; a string is the sequence   *)
(* of its characters.                                                      *)
(***************************************************************************)
EXTENDS Integers, Sequences, FiniteSets, TLC

VARIABLES state, now, nOps, lastOp, defaultChecklists, storage, savedFingerprint, phase,
          writes, input, output

vars ==
  <<state, now, nOps, lastOp, defaultChecklists, storage, savedFingerprint, phase, writes,
    input, output>>

----------------------------------------------------------------------------
(* Bounds *)

MaxTime == 2

MaxOps == 3

MaxItems == 2

----------------------------------------------------------------------------
(* Option values *)

None == <<>>

Some(v) == <<v>>

IsSome(o) == Len(o) = 1

Get(o) == o[1]

(* JavaScript truthiness of an optional string / optional number *)
TruthyStr(o) == IsSome(o) /\ Get(o) # ""

TruthyNum(o) == IsSome(o) /\ Get(o) # 0

----------------------------------------------------------------------------
(* Sequence helpers. Array.prototype.map is a function over the indices,  *)
(* Array.prototype.filter is SelectSeq.                                    *)

RECURSIVE AllItems(_)
AllItems(cls) ==
  IF cls = <<>> THEN <<>> ELSE Head(cls).items \o AllItems(Tail(cls))

CountStatus(items, st) == Cardinality({i \in 1..Len(items) : items[i].status = st})

----------------------------------------------------------------------------
(* Types *)

TestStatus == {"not_started", "passed", "failed", "skipped"}

BugStatus == {"open", "in_progress", "fixed", "wont_fix"}

DEFAULT_STATE ==
  [isOpen |-> FALSE, currentSession |-> None, testSessions |-> <<>>,
   checklists |-> <<>>, bugs |-> <<>>]

----------------------------------------------------------------------------
(* Store operations: each is the updater passed to setState, as a function *)
(* of the previous state, the arguments and the clock reading t.           *)

(* updateTestStatus that keeps an item's notes when none are passed *)
updateTestStatus_KeepsNotes(prev, testId, status, notes, t) ==
  LET updatedChecklists ==
        [ci \in 1..Len(prev.checklists) |-> LET checklist == prev.checklists[ci] IN
          [checklist EXCEPT !.items =
            [ii \in 1..Len(checklist.items) |-> LET item == checklist.items[ii] IN
              IF item.id = testId
              THEN [item EXCEPT !.status = status,
                                !.notes = IF notes = None THEN item.notes ELSE notes,
                                !.testedAt = Some(t)]
              ELSE item]]]
      allTests == AllItems(updatedChecklists)
      updatedSession ==
        IF IsSome(prev.currentSession)
        THEN Some([Get(prev.currentSession) EXCEPT
                     !.totalTests = Len(allTests),
                     !.passedTests = CountStatus(allTests, "passed"),
                     !.failedTests = CountStatus(allTests, "failed"),
                     !.skippedTests = CountStatus(allTests, "skipped")])
        ELSE prev.currentSession
  IN [prev EXCEPT !.checklists = updatedChecklists, !.currentSession = updatedSession]

(* updateTestStatus with the counters taken from the checklists before the update *)
updateTestStatus_StaleCounts(prev, testId, status, notes, t) ==
  LET updatedChecklists ==
        [ci \in 1..Len(prev.checklists) |-> LET checklist == prev.checklists[ci] IN
          [checklist EXCEPT !.items =
            [ii \in 1..Len(checklist.items) |-> LET item == checklist.items[ii] IN
              IF item.id = testId
              THEN [item EXCEPT !.status = status, !.notes = notes, !.testedAt = Some(t)]
              ELSE item]]]
      allTests == AllItems(prev.checklists)
      updatedSession ==
        IF IsSome(prev.currentSession)
        THEN Some([Get(prev.currentSession) EXCEPT
                     !.totalTests = Len(allTests),
                     !.passedTests = CountStatus(allTests, "passed"),
                     !.failedTests = CountStatus(allTests, "failed"),
                     !.skippedTests = CountStatus(allTests, "skipped")])
        ELSE prev.currentSession
  IN [prev EXCEPT !.checklists = updatedChecklists, !.currentSession = updatedSession]

updateTestStatus(prev, testId, status, notes, t) ==
  LET updatedChecklists ==
        [ci \in 1..Len(prev.checklists) |-> LET checklist == prev.checklists[ci] IN
          [checklist EXCEPT !.items =
            [ii \in 1..Len(checklist.items) |-> LET item == checklist.items[ii] IN
              IF item.id = testId
              THEN [item EXCEPT !.status = status, !.notes = notes, !.testedAt = Some(t)]
              ELSE item]]]
      allTests == AllItems(updatedChecklists)
      updatedSession ==
        IF IsSome(prev.currentSession)
        THEN Some([Get(prev.currentSession) EXCEPT
                     !.totalTests = Len(allTests),
                     !.passedTests = CountStatus(allTests, "passed"),
                     !.failedTests = CountStatus(allTests, "failed"),
                     !.skippedTests = CountStatus(allTests, "skipped")])
        ELSE prev.currentSession
  IN [prev EXCEPT !.checklists = updatedChecklists, !.currentSession = updatedSession]

addTestItem(prev, item) ==
  IF \E i \in 1..Len(prev.checklists) : prev.checklists[i].screen = item.screen
  THEN [prev EXCEPT !.checklists =
          [ci \in 1..Len(prev.checklists) |-> LET c == prev.checklists[ci] IN
            IF c.screen = item.screen
            THEN [c EXCEPT !.items = Append(c.items, item)]
            ELSE c]]
  ELSE [prev EXCEPT !.checklists =
          Append(prev.checklists, [screen |-> item.screen, items |-> <<item>>])]

(* removeTestItem that drops a checklist left without items *)
removeTestItem_DropsEmpty(prev, testId) ==
  [prev EXCEPT !.checklists =
     SelectSeq([ci \in 1..Len(prev.checklists) |-> LET c == prev.checklists[ci] IN
                 [c EXCEPT !.items = SelectSeq(c.items, LAMBDA item : item.id # testId)]],
               LAMBDA c : c.items # <<>>)]

(* removeTestItem that also recomputes the active session's counters *)
removeTestItem_Recounts(prev, testId) ==
  LET updatedChecklists ==
        [ci \in 1..Len(prev.checklists) |-> LET c == prev.checklists[ci] IN
          [c EXCEPT !.items = SelectSeq(c.items, LAMBDA item : item.id # testId)]]
      allTests == AllItems(updatedChecklists)
  IN [prev EXCEPT
        !.checklists = updatedChecklists,
        !.currentSession =
           IF IsSome(prev.currentSession)
           THEN Some([Get(prev.currentSession) EXCEPT !.totalTests = Len(allTests)])
           ELSE prev.currentSession]

removeTestItem(prev, testId) ==
  [prev EXCEPT !.checklists =
     [ci \in 1..Len(prev.checklists) |-> LET c == prev.checklists[ci] IN
       [c EXCEPT !.items = SelectSeq(c.items, LAMBDA item : item.id # testId)]]]

(* reportBug that records the id in the session only *)
reportBug_SessionOnly(prev, bug, t) ==
  IF IsSome(prev.currentSession)
  THEN [prev EXCEPT !.currentSession =
          Some([Get(prev.currentSession) EXCEPT !.bugsFound = Append(@, t)])]
  ELSE prev

reportBug(prev, bug, t) ==
  LET newBug == [id |-> t, title |-> bug.title, severity |-> bug.severity,
                 status |-> bug.status, reportedAt |-> t, fixedAt |-> bug.fixedAt]
      updatedBugs == Append(prev.bugs, newBug)
      updatedSession ==
        IF IsSome(prev.currentSession)
        THEN Some([Get(prev.currentSession) EXCEPT
                     !.bugsFound = Append(@, newBug.id)])
        ELSE prev.currentSession
  IN [prev EXCEPT !.bugs = updatedBugs, !.currentSession = updatedSession]

(* updateBugStatus that clears fixedAt when the new status is not fixed *)
updateBugStatus_ClearsFixedAt(prev, bugId, status, t) ==
  [prev EXCEPT !.bugs =
     [bi \in 1..Len(prev.bugs) |-> LET bug == prev.bugs[bi] IN
       IF bug.id = bugId
       THEN [bug EXCEPT !.status = status,
                        !.fixedAt = IF status = "fixed" THEN Some(t) ELSE None]
       ELSE bug]]

updateBugStatus(prev, bugId, status, t) ==
  [prev EXCEPT !.bugs =
     [bi \in 1..Len(prev.bugs) |-> LET bug == prev.bugs[bi] IN
       IF bug.id = bugId
       THEN [bug EXCEPT !.status = status,
                        !.fixedAt = IF status = "fixed" THEN Some(t) ELSE bug.fixedAt]
       ELSE bug]]

(* deleteBug that removes the bug but leaves the session's bugsFound alone *)
deleteBug_KeepsBugsFound(prev, bugId) ==
  [prev EXCEPT
     !.bugs = SelectSeq(prev.bugs, LAMBDA bug : bug.id # bugId),
     !.currentSession = IF IsSome(prev.currentSession) THEN prev.currentSession ELSE None]

deleteBug(prev, bugId) ==
  [prev EXCEPT
     !.bugs = SelectSeq(prev.bugs, LAMBDA bug : bug.id # bugId),
     !.currentSession =
        IF IsSome(prev.currentSession)
        THEN Some([Get(prev.currentSession) EXCEPT
                     !.bugsFound = SelectSeq(@, LAMBDA id : id # bugId)])
        ELSE None]

(* startTestSession that resets the statuses but keeps notes and testedAt *)
startTestSession_KeepsNotes(prev, name, tester, t) ==
  LET resetChecklists ==
        [ci \in 1..Len(prev.checklists) |-> LET checklist == prev.checklists[ci] IN
          [checklist EXCEPT !.items =
            [ii \in 1..Len(checklist.items) |->
               LET item == checklist.items[ii] IN [item EXCEPT !.status = "not_started"]]]]
      allTests == AllItems(resetChecklists)
      newSession ==
        [id |-> t, name |-> name, tester |-> tester, startedAt |-> t,
         completedAt |-> None, totalTests |-> Len(allTests), passedTests |-> 0,
         failedTests |-> 0, skippedTests |-> 0, bugsFound |-> <<>>, notes |-> None]
  IN [prev EXCEPT !.checklists = resetChecklists, !.currentSession = Some(newSession)]

startTestSession(prev, name, tester, t) ==
  LET resetChecklists ==
        [ci \in 1..Len(prev.checklists) |-> LET checklist == prev.checklists[ci] IN
          [checklist EXCEPT !.items =
            [ii \in 1..Len(checklist.items) |-> LET item == checklist.items[ii] IN
              [item EXCEPT !.status = "not_started", !.notes = None, !.testedAt = None]]]]
      allTests == AllItems(resetChecklists)
      newSession ==
        [id |-> t, name |-> name, tester |-> tester, startedAt |-> t,
         completedAt |-> None, totalTests |-> Len(allTests), passedTests |-> 0,
         failedTests |-> 0, skippedTests |-> 0, bugsFound |-> <<>>, notes |-> None]
  IN [prev EXCEPT !.checklists = resetChecklists, !.currentSession = Some(newSession)]

(* completeTestSession that records the session without its completion time *)
completeTestSession_NoCompletedAt(prev, notes, t) ==
  IF ~IsSome(prev.currentSession) THEN prev
  ELSE [prev EXCEPT !.currentSession = None,
                    !.testSessions =
                       Append(prev.testSessions,
                              [Get(prev.currentSession) EXCEPT !.notes = notes])]

(* completeTestSession that records the session but leaves it current *)
completeTestSession_KeepsCurrent(prev, notes, t) ==
  IF ~IsSome(prev.currentSession) THEN prev
  ELSE LET completedSession ==
             [Get(prev.currentSession) EXCEPT !.completedAt = Some(t), !.notes = notes]
       IN [prev EXCEPT !.testSessions = Append(prev.testSessions, completedSession)]

completeTestSession(prev, notes, t) ==
  IF ~IsSome(prev.currentSession) THEN prev
  ELSE LET completedSession ==
             [Get(prev.currentSession) EXCEPT !.completedAt = Some(t), !.notes = notes]
       IN [prev EXCEPT !.currentSession = None,
                       !.testSessions = Append(prev.testSessions, completedSession)]

(* deleteSession that also drops the current session when its id matches *)
deleteSession_AlsoCurrent(prev, sessionId) ==
  [prev EXCEPT
     !.testSessions = SelectSeq(prev.testSessions, LAMBDA session : session.id # sessionId),
     !.currentSession =
        IF IsSome(prev.currentSession) /\ Get(prev.currentSession).id = sessionId
        THEN None ELSE prev.currentSession]

deleteSession(prev, sessionId) ==
  [prev EXCEPT !.testSessions =
     SelectSeq(prev.testSessions, LAMBDA session : session.id # sessionId)]

togglePanel(prev) == [prev EXCEPT !.isOpen = ~prev.isOpen]

resetState(defaults) == [DEFAULT_STATE EXCEPT !.checklists = defaults]

----------------------------------------------------------------------------
(* Reconciliation of the persisted checklists with the supplied ones *)

(* the condition under which a saved item's results enter the savedResults map *)
HasResults(item) ==
  item.status # "not_started" \/ TruthyStr(item.notes) \/ TruthyNum(item.testedAt)

(* savedResults.get(id): the entry set last, <<>> when the map has no such key *)
SavedResult(savedItems, id) ==
  LET hits == {j \in 1..Len(savedItems) :
                 savedItems[j].id = id /\ HasResults(savedItems[j])}
  IN IF hits = {} THEN None
     ELSE Some(savedItems[CHOOSE j \in hits : \A k \in hits : k <= j])

(* mergeChecklists that keeps a saved result only when its status is set *)
mergeChecklists_StatusOnly(savedChecklists, suppliedChecklists) ==
  LET savedItems == SelectSeq(AllItems(savedChecklists),
                              LAMBDA item : item.status # "not_started")
  IN [ci \in 1..Len(suppliedChecklists) |-> LET checklist == suppliedChecklists[ci] IN
       [checklist EXCEPT !.items =
         [ii \in 1..Len(checklist.items) |-> LET item == checklist.items[ii] IN
           LET saved == SavedResult(savedItems, item.id)
           IN IF IsSome(saved)
              THEN [item EXCEPT !.status = Get(saved).status,
                                !.notes = Get(saved).notes,
                                !.testedAt = Get(saved).testedAt]
              ELSE item]]]

mergeChecklists(savedChecklists, suppliedChecklists) ==
  LET savedItems == AllItems(savedChecklists)
  IN [ci \in 1..Len(suppliedChecklists) |-> LET checklist == suppliedChecklists[ci] IN
       [checklist EXCEPT !.items =
         [ii \in 1..Len(checklist.items) |-> LET item == checklist.items[ii] IN
           LET saved == SavedResult(savedItems, item.id)
           IN IF IsSome(saved)
              THEN [item EXCEPT !.status = Get(saved).status,
                                !.notes = Get(saved).notes,
                                !.testedAt = Get(saved).testedAt]
              ELSE item]]]

(* Array.prototype.sort on ids: the order of the ids the model uses *)
IdOrder == <<"t1", "t2", "t3">>

RECURSIVE SortedFrom(_, _)
SortedFrom(ids, k) ==
  IF k > Len(IdOrder) THEN <<>>
  ELSE SelectSeq(ids, LAMBDA id : id = IdOrder[k]) \o SortedFrom(ids, k + 1)

(* the sorted ids; join(',') is one-to-one on them, as no id holds a comma *)
generateChecklistFingerprint(checklists) ==
  LET allItems == AllItems(checklists)
  IN SortedFrom([i \in 1..Len(allItems) |-> allItems[i].id], 1)

----------------------------------------------------------------------------
(* Persistence (qaStorage). A stored blob is <<>> (no entry under the key) or  *)
(* <<b>>, b the text under the key: b.parses says whether JSON.parse accepts  *)
(* it and b.kind what it is ("empty": the empty string, "text": other text    *)
(* that does not parse, "null", "scalar": a number, string or boolean,         *)
(* "object": an object or array); isOpen is <<v>> when the parsed value has a  *)
(* boolean isOpen, and testSessions, checklists, bugs are <<v>> when they are  *)
(* arrays.                                                                     *)

(* JSON.stringify that leaves the current session out *)
Serialize_NoCurrentSession(st) ==
  [kind |-> "object", parses |-> TRUE, isOpen |-> Some(st.isOpen),
   currentSession |-> None,
   testSessions |-> Some(st.testSessions),
   checklists |-> Some(st.checklists),
   bugs |-> Some(st.bugs)]

(* JSON.stringify(state) *)
Serialize(st) ==
  [kind |-> "object", parses |-> TRUE, isOpen |-> Some(st.isOpen),
   currentSession |-> st.currentSession,
   testSessions |-> Some(st.testSessions),
   checklists |-> Some(st.checklists),
   bugs |-> Some(st.bugs)]

(* how a localStorage.setItem call ends: it returns, it throws the DOMException *)
(* named QuotaExceededError, or it throws anything else                        *)
WriteResults == {"ok", "quota", "error"}

(* the number of sessions clearOldSessions keeps *)
KeepSessions == 10

(* sorted with x put behind the entries that started no earlier: Array.sort is *)
(* stable, so entries with equal startedAt keep their order                    *)
InsertSession(sorted, x) ==
  LET k == Cardinality({i \in 1..Len(sorted) : sorted[i].startedAt >= x.startedAt})
  IN SubSeq(sorted, 1, k) \o <<x>> \o SubSeq(sorted, k + 1, Len(sorted))

(* [...sessions].sort((a, b) => b.startedAt - a.startedAt) *)
RECURSIVE SortByStartedAtDesc(_)
SortByStartedAtDesc(sessions) ==
  IF sessions = <<>> THEN <<>>
  ELSE InsertSession(SortByStartedAtDesc(SubSeq(sessions, 1, Len(sessions) - 1)),
                     sessions[Len(sessions)])

(* clearOldSessions that keeps the first sessions of the list as it stands *)
clearOldSessions_Unsorted(st, stored, retry) ==
  LET recentSessions ==
        SubSeq(st.testSessions, 1,
               IF Len(st.testSessions) < KeepSessions
               THEN Len(st.testSessions) ELSE KeepSessions)
      serialized == Serialize([st EXCEPT !.testSessions = recentSessions])
  IN [storage |-> IF retry = "ok" THEN Some(serialized) ELSE stored,
      writes |-> <<[doc |-> serialized, result |-> retry]>>]

(* the retry: what the key holds afterwards (stored, when the write fails) and *)
(* the write attempted, retry being how its setItem ends                       *)
clearOldSessions(st, stored, retry) ==
  LET sortedSessions == SortByStartedAtDesc(st.testSessions)
      recentSessions ==
        SubSeq(sortedSessions, 1,
               IF Len(sortedSessions) < KeepSessions
               THEN Len(sortedSessions) ELSE KeepSessions)
      cleanedState == [st EXCEPT !.testSessions = recentSessions]
      serialized == Serialize(cleanedState)
  IN [storage |-> IF retry = "ok" THEN Some(serialized) ELSE stored,
      writes |-> <<[doc |-> serialized, result |-> retry]>>]

(* saveQAState, first being how its setItem ends: what the key holds           *)
(* afterwards and the writes attempted, in order                               *)
saveQAStateWith(st, stored, first, retry) ==
  LET serialized == Serialize(st)
      attempt == <<[doc |-> serialized, result |-> first]>>
  IN IF first = "ok" THEN [storage |-> Some(serialized), writes |-> attempt]
     ELSE IF first = "quota"
          THEN LET retried == clearOldSessions(st, stored, retry)
               IN [storage |-> retried.storage, writes |-> attempt \o retried.writes]
          ELSE [storage |-> stored, writes |-> attempt]

(* saveQAState when setItem accepts the write: what the key holds afterwards *)
saveQAState(st) == saveQAStateWith(st, None, "ok", "ok").storage

(* loadQAState that takes a document without a bugs array, with no bugs *)
loadQAState_DefaultsBugs(stored) ==
  IF ~IsSome(stored) \/ Get(stored).kind # "object" THEN None
  ELSE LET parsed == Get(stored)
       IN IF /\ IsSome(parsed.isOpen)
             /\ IsSome(parsed.testSessions)
             /\ IsSome(parsed.checklists)
          THEN Some([isOpen |-> Get(parsed.isOpen),
                     currentSession |-> parsed.currentSession,
                     testSessions |-> Get(parsed.testSessions),
                     checklists |-> Get(parsed.checklists),
                     bugs |-> IF IsSome(parsed.bugs) THEN Get(parsed.bugs) ELSE <<>>])
          ELSE None

(* every exit of the try block and the catch: getItem gives null or "" (line   *)
(* 120), JSON.parse throws, parsed is null so that parsed.isOpen throws, the   *)
(* structure check fails (line 136), the structure check passes (line 132)     *)
loadQAState(stored) ==
  IF ~IsSome(stored) THEN None
  ELSE LET parsed == Get(stored)
       IN IF parsed.kind = "empty" THEN None
          ELSE IF ~parsed.parses THEN None
          ELSE IF parsed.kind = "null" THEN None
          ELSE IF /\ parsed.kind = "object"
                  /\ IsSome(parsed.isOpen)
                  /\ IsSome(parsed.testSessions)
                  /\ IsSome(parsed.checklists)
                  /\ IsSome(parsed.bugs)
               THEN Some([isOpen |-> Get(parsed.isOpen),
                          currentSession |-> parsed.currentSession,
                          testSessions |-> Get(parsed.testSessions),
                          checklists |-> Get(parsed.checklists),
                          bugs |-> Get(parsed.bugs)])
               ELSE None

(* an initializer that reconciles whatever the stored fingerprint is *)
QAProviderInit_AlwaysMerges(stored, savedFp, defaults) ==
  LET loaded == loadQAState(stored)
  IN IF IsSome(loaded) /\ Len(Get(loaded).checklists) > 0
     THEN [Get(loaded) EXCEPT
             !.checklists = mergeChecklists(Get(loaded).checklists, defaults),
             !.isOpen = FALSE]
     ELSE [DEFAULT_STATE EXCEPT !.checklists = defaults]

(* the initial state computed by QAProvider's useState initializer *)
QAProviderInit(stored, savedFp, defaults) ==
  LET loaded == loadQAState(stored)
      newFingerprint == generateChecklistFingerprint(defaults)
  IN IF IsSome(loaded) /\ Len(Get(loaded).checklists) > 0
     THEN IF savedFp # Some(newFingerprint)
          THEN [Get(loaded) EXCEPT
                  !.checklists = mergeChecklists(Get(loaded).checklists, defaults),
                  !.isOpen = FALSE]
          ELSE [Get(loaded) EXCEPT !.isOpen = FALSE]
     ELSE [DEFAULT_STATE EXCEPT !.checklists = defaults]

----------------------------------------------------------------------------
(* Inputs *)

TestIds == {"t1", "t2", "t3"}

Screens == {"A", "B"}

NoteArgs == {None, Some("n")}

(* (status, notes) arguments of updateTestStatus: the panel's status buttons *)
(* pass no notes, its notes box passes the text with the item's status      *)
StatusArgs == (TestStatus \X {None}) \cup {<<"failed", Some("n")>>}

(* ids of items added at run time: a fresh one and one already in use *)
AddIds == {"t1", "t3"}

Times == 1..MaxTime

(* ids handed to the bug and session operations: every id a clock reading *)
(* can have produced, and 0, which none produces                           *)
IdArgs == Times \cup {0}

NewItem(id, screen) ==
  [id |-> id, screen |-> screen, description |-> "d", status |-> "not_started",
   notes |-> None, testedAt |-> None]

DefaultDocs ==
  { << [screen |-> "A", items |-> <<NewItem("t1", "A"), NewItem("t2", "A")>>] >>,
    << [screen |-> "A", items |-> <<NewItem("t1", "A")>>],
       [screen |-> "B", items |-> <<NewItem("t2", "B")>>] >> }

BugInputs ==
  { [title |-> "b", severity |-> "medium", status |-> "open", fixedAt |-> None] }

----------------------------------------------------------------------------
(* The provider after mounting with no persisted blob *)

Init ==
  /\ defaultChecklists \in DefaultDocs
  /\ state = [DEFAULT_STATE EXCEPT !.checklists = defaultChecklists]
  /\ storage = saveQAState(state)
  /\ savedFingerprint = Some(generateChecklistFingerprint(defaultChecklists))
  /\ phase = "mounted"
  /\ now = 1
  /\ nOps = 0
  /\ lastOp = [op |-> "init", active |-> FALSE]
  /\ writes = <<>>
  /\ input = <<>>
  /\ output = <<>>

(* A committed state update, followed by the auto-save effect. lastOp     *)
(* records the operation and whether a session was active when it ran.   *)
Commit(op, next) ==
  /\ phase = "mounted"
  /\ nOps < MaxOps
  /\ state' = next
  /\ storage' = saveQAState(next)
  /\ lastOp' = [op |-> op, active |-> IsSome(state.currentSession)]
  /\ nOps' = nOps + 1
  /\ UNCHANGED <<now, defaultChecklists, savedFingerprint, phase, writes, input, output>>

Tick ==
  /\ phase = "mounted"
  /\ now < MaxTime
  /\ now' = now + 1
  /\ UNCHANGED <<state, nOps, lastOp, defaultChecklists, storage, savedFingerprint, phase,
               writes, input, output>>

DoUpdateTestStatus ==
  \E id \in TestIds, a \in StatusArgs :
    Commit("updateTestStatus", updateTestStatus(state, id, a[1], a[2], now))

DoAddTestItem ==
  \E id \in AddIds, sc \in Screens :
    Commit("addTestItem", addTestItem(state, NewItem(id, sc)))

DoRemoveTestItem ==
  \E id \in TestIds : Commit("removeTestItem", removeTestItem(state, id))

DoReportBug ==
  \E bug \in BugInputs : Commit("reportBug", reportBug(state, bug, now))

DoUpdateBugStatus ==
  \E id \in IdArgs, st \in BugStatus :
    Commit("updateBugStatus", updateBugStatus(state, id, st, now))

DoDeleteBug ==
  \E id \in IdArgs : Commit("deleteBug", deleteBug(state, id))

DoStartTestSession ==
  Commit("startTestSession", startTestSession(state, "s", "u", now))

DoCompleteTestSession ==
  \E n \in NoteArgs :
    Commit("completeTestSession", completeTestSession(state, n, now))

DoDeleteSession ==
  \E id \in IdArgs : Commit("deleteSession", deleteSession(state, id))

DoTogglePanel == Commit("togglePanel", togglePanel(state))

DoResetState == Commit("resetState", resetState(defaultChecklists))

Next ==
  \/ Tick
  \/ DoUpdateTestStatus
  \/ DoAddTestItem
  \/ DoRemoveTestItem
  \/ DoReportBug
  \/ DoUpdateBugStatus
  \/ DoDeleteBug
  \/ DoStartTestSession
  \/ DoCompleteTestSession
  \/ DoDeleteSession
  \/ DoTogglePanel
  \/ DoResetState

Spec == Init /\ [][Next]_vars

----------------------------------------------------------------------------
(* Mounting the provider over whatever an earlier run left in localStorage *)

SeqsUpTo(S, n) == UNION {[1..k -> S] : k \in 0..n}

SavedResults ==
  { <<"not_started", None, None>>,
    <<"passed", None, Some(1)>>,
    <<"not_started", Some("n"), None>>,
    <<"not_started", Some(""), None>>,
    <<"not_started", None, Some(1)>> }

ItemOf(id, description, r) ==
  [id |-> id, screen |-> "A", description |-> description, status |-> r[1],
   notes |-> r[2], testedAt |-> r[3]]

SavedItems ==
  {ItemOf("t1", "old", r) : r \in SavedResults}
    \cup {ItemOf("t2", "old", <<"failed", Some("n"), Some(1)>>)}

SuppliedItems ==
  { ItemOf("t1", "new", <<"not_started", None, None>>),
    ItemOf("t1", "new", <<"skipped", Some("m"), Some(2)>>),
    ItemOf("t3", "new", <<"not_started", None, None>>) }

OnScreen(items, screen) == [i \in 1..Len(items) |-> [items[i] EXCEPT !.screen = screen]]

(* the checklist documents holding the items of l: one screen, or two *)
DocsOf(l) ==
  IF l = <<>> THEN {<<>>}
  ELSE {<<[screen |-> "A", items |-> l]>>} \cup
       (IF Len(l) < 2 THEN {}
        ELSE {<<[screen |-> "A", items |-> <<Head(l)>>],
                [screen |-> "B", items |-> OnScreen(Tail(l), "B")]>>})

SavedChecklists == UNION {DocsOf(l) : l \in SeqsUpTo(SavedItems, MaxItems)}

SuppliedChecklists == UNION {DocsOf(l) : l \in SeqsUpTo(SuppliedItems, MaxItems)}

OldSession(id, completedAt) ==
  [id |-> id, name |-> "s", tester |-> "u", startedAt |-> id,
   completedAt |-> completedAt, totalTests |-> 1, passedTests |-> 1,
   failedTests |-> 0, skippedTests |-> 0, bugsFound |-> <<1>>, notes |-> None]

OldBug ==
  [id |-> 1, title |-> "b", severity |-> "medium", status |-> "open",
   reportedAt |-> 1, fixedAt |-> None]

(* the documents an earlier run can have saved *)
PersistedDocs ==
  {[DEFAULT_STATE EXCEPT !.checklists = c] : c \in SavedChecklists} \cup
  {[isOpen |-> TRUE, currentSession |-> Some(OldSession(2, None)),
    testSessions |-> <<OldSession(1, Some(1))>>, checklists |-> c,
    bugs |-> <<OldBug>>] : c \in SavedChecklists}

Blob(kind, parses, isOpen, testSessions, checklists, bugs) ==
  Some([kind |-> kind, parses |-> parses, isOpen |-> isOpen, currentSession |-> None,
        testSessions |-> testSessions, checklists |-> checklists, bugs |-> bugs])

(* text under the key that is empty, does not parse, or parses to another shape: *)
(* null, a scalar, an array or object without the fields, and documents with     *)
(* one of isOpen, testSessions, checklists, bugs missing or of another type      *)
BadBlobs ==
  { Blob("empty", FALSE, None, None, None, None),
    Blob("text", FALSE, None, None, None, None),
    Blob("null", TRUE, None, None, None, None),
    Blob("scalar", TRUE, None, None, None, None),
    Blob("object", TRUE, None, None, None, None),
    Blob("object", TRUE, None, Some(<<>>), Some(<<>>), Some(<<OldBug>>)),
    Blob("object", TRUE, Some(FALSE), None, Some(<<>>), Some(<<OldBug>>)),
    Blob("object", TRUE, Some(FALSE), Some(<<>>), None, Some(<<OldBug>>)),
    Blob("object", TRUE, Some(FALSE), Some(<<>>), Some(<<>>), None) }

StoredBlobs == {None} \cup BadBlobs \cup {saveQAState(d) : d \in PersistedDocs}

LoadedChecklists ==
  IF IsSome(loadQAState(storage)) THEN Get(loadQAState(storage)).checklists ELSE <<>>

InitLoad ==
  /\ storage \in StoredBlobs
  /\ defaultChecklists \in SuppliedChecklists
  /\ savedFingerprint \in
       {None, Some(generateChecklistFingerprint(defaultChecklists)),
        Some(generateChecklistFingerprint(LoadedChecklists))}
  /\ state = DEFAULT_STATE
  /\ phase = "unmounted"
  /\ now = 1
  /\ nOps = 0
  /\ lastOp = [op |-> "none", active |-> FALSE]
  /\ writes = <<>>
  /\ input = <<>>
  /\ output = <<>>

(* QAProvider mounts: the initial state, the fingerprint write, the first save *)
Mount ==
  /\ phase = "unmounted"
  /\ state' = QAProviderInit(storage, savedFingerprint, defaultChecklists)
  /\ savedFingerprint' = Some(generateChecklistFingerprint(defaultChecklists))
  /\ storage' = saveQAState(state')
  /\ phase' = "mounted"
  /\ lastOp' = [op |-> "QAProvider", active |-> FALSE]
  /\ UNCHANGED <<now, nOps, defaultChecklists, writes, input, output>>

SpecLoad == InitLoad /\ [][Mount]_vars

----------------------------------------------------------------------------
(* Saving a document under a storage that may refuse the write *)

MaxSessions == 11

(* the i-th recorded session of a document, started at t *)
SessionAt(i, t) == [OldSession(t, Some(t)) EXCEPT !.totalTests = i, !.passedTests = i]

(* the lists of at most maxLen recorded sessions *)
SessionLists(maxLen) ==
  UNION {{[i \in 1..n |-> SessionAt(i, f[i])] : f \in [1..n -> {1, 2}]} :
           n \in 0..maxLen}

(* the documents handed to saveQAState: a state in use, with any recorded *)
(* sessions                                                              *)
SaveDocs(maxLen) ==
  {[isOpen |-> TRUE, currentSession |-> Some(OldSession(2, None)),
    testSessions |-> l,
    checklists |-> <<[screen |-> "A", items |-> <<NewItem("t1", "A")>>]>>,
    bugs |-> <<OldBug>>] : l \in SessionLists(maxLen)}

InitSave ==
  /\ state \in SaveDocs(MaxSessions)
  /\ storage \in {None, saveQAState(DEFAULT_STATE)}
  /\ writes = <<>>
  /\ input = <<>>
  /\ output = <<>>
  /\ phase = "mounted"
  /\ defaultChecklists = state.checklists
  /\ savedFingerprint = Some(generateChecklistFingerprint(defaultChecklists))
  /\ now = 2
  /\ nOps = 0
  /\ lastOp = [op |-> "none", active |-> FALSE]

(* the auto-save effect runs saveQAState(state, storageKey) *)
SaveQAState ==
  /\ phase = "mounted"
  /\ \E first \in WriteResults, retry \in WriteResults :
       LET saved == saveQAStateWith(state, storage, first, retry)
       IN /\ storage' = saved.storage
          /\ writes' = saved.writes
  /\ phase' = "saved"
  /\ lastOp' = [op |-> "saveQAState", active |-> IsSome(state.currentSession)]
  /\ UNCHANGED <<state, now, nOps, defaultChecklists, savedFingerprint, input, output>>

SpecSave == InitSave /\ [][SaveQAState]_vars

----------------------------------------------------------------------------
(* The CLI's router parser: screen names from route paths *)

MaxPathLen == 5

(* the characters of the route paths tried: the separators, a letter and "_" *)
PathChars == {"/", ":", "-", "a", "_"}

(* the characters \w does not match, among those of the model *)
NonWordChars == {"/", ":", "-"}

(* the position after the run of \w characters that starts at position i *)
RECURSIVE WordEnd(_, _)
WordEnd(str, i) ==
  IF i <= Len(str) /\ str[i] \notin NonWordChars THEN WordEnd(str, i + 1) ELSE i

(* .replace(/^\//, '') *)
StripLeadingSlash(str) ==
  IF str # <<>> /\ Head(str) = "/" THEN Tail(str) ELSE str

(* .replace(/\/:[\w]+/g, '') from position i on: a match is "/", ":" and the *)
(* longest run of at least one \w character; the search resumes behind it    *)
RECURSIVE RemoveDynamicFrom(_, _)
RemoveDynamicFrom(str, i) ==
  IF i > Len(str) THEN <<>>
  ELSE IF /\ str[i] = "/"
          /\ i + 2 <= Len(str)
          /\ str[i + 1] = ":"
          /\ str[i + 2] \notin NonWordChars
       THEN RemoveDynamicFrom(str, WordEnd(str, i + 2))
       ELSE <<str[i]>> \o RemoveDynamicFrom(str, i + 1)

(* .replace(/x/g, 'y') for single characters x and y *)
ReplaceAll(str, x, y) == [i \in 1..Len(str) |-> IF str[i] = x THEN y ELSE str[i]]

LowerLetters ==
  <<"a", "b", "c", "d", "e", "f", "g", "h", "i", "j", "k", "l", "m",
    "n", "o", "p", "q", "r", "s", "t", "u", "v", "w", "x", "y", "z">>

UpperLetters ==
  <<"A", "B", "C", "D", "E", "F", "G", "H", "I", "J", "K", "L", "M",
    "N", "O", "P", "Q", "R", "S", "T", "U", "V", "W", "X", "Y", "Z">>

IsLower(c) == \E i \in 1..26 : LowerLetters[i] = c

IsUpper(c) == \E i \in 1..26 : UpperLetters[i] = c

(* c.toUpperCase() *)
UpperChar(c) ==
  IF IsLower(c) THEN UpperLetters[CHOOSE i \in 1..26 : LowerLetters[i] = c] ELSE c

(* .toUpperCase() *)
ToUpperCase(str) == [i \in 1..Len(str) |-> UpperChar(str[i])]

Includes(str, c) == \E i \in 1..Len(str) : str[i] = c

HOME == <<"H", "O", "M", "E">>

DETAIL == <<"_", "D", "E", "T", "A", "I", "L">>

routePathToScreenName(routePath) ==
  LET name == ToUpperCase(ReplaceAll(ReplaceAll(
                RemoveDynamicFrom(StripLeadingSlash(routePath), 1), "/", "_"), "-", "_"))
  IN IF name = <<>> THEN HOME
     ELSE IF Includes(routePath, ":") THEN name \o DETAIL
     ELSE name

(* every ":" opens a segment and is followed by a parameter name *)
IsRoutePath(str) ==
  \A i \in 1..Len(str) :
    str[i] = ":" =>
      /\ i = 1 \/ str[i - 1] = "/"
      /\ i < Len(str)
      /\ str[i + 1] \notin NonWordChars

(* the route paths of at most maxLen characters *)
RoutePaths(maxLen) ==
  {str \in UNION {[1..n -> PathChars] : n \in 0..maxLen} : IsRoutePath(str)}

InitName ==
  /\ input \in RoutePaths(MaxPathLen)
  /\ output = <<>>
  /\ phase = "path"
  /\ state = DEFAULT_STATE
  /\ storage = None
  /\ writes = <<>>
  /\ defaultChecklists = <<>>
  /\ savedFingerprint = None
  /\ now = 1
  /\ nOps = 0
  /\ lastOp = [op |-> "none", active |-> FALSE]

(* the screen name of a route path is derived *)
Derive ==
  /\ phase = "path"
  /\ output' = <<routePathToScreenName(input)>>
  /\ phase' = "derived"
  /\ UNCHANGED <<input, state, storage, writes, defaultChecklists, savedFingerprint, now,
                 nOps, lastOp>>

(* the derived name is handed to the derivation again *)
Rederive ==
  /\ phase = "derived"
  /\ input' = output[1]
  /\ output' = <<routePathToScreenName(input')>>
  /\ phase' = "rederived"
  /\ UNCHANGED <<state, storage, writes, defaultChecklists, savedFingerprint, now, nOps,
                 lastOp>>

NextName == Derive \/ Rederive

SpecName == InitName /\ [][NextName]_vars

----------------------------------------------------------------------------
(* The CLI's router parser: route detection. A project is the files found at  *)
(* the first MaxFiles conventional locations and the routes the directory     *)
(* scan finds; a file's text is taken by what the two extractors find in it.  *)

MaxFiles == 3

ROUTER_FILE_PATTERNS ==
  << "src/router.tsx", "src/router.ts", "src/routes.tsx", "src/routes.ts",
     "src/App.tsx", "src/App.jsx", "src/app/routes.tsx", "src/app/router.tsx",
     "app/routes.tsx", "app/router.tsx", "src/main.tsx", "src/index.tsx" >>

parseCreateBrowserRouter(content) == content.browserRoutes

parseRoutesJSX(content) == content.jsxRoutes

parseNextJsPages(project) == project.nextRoutes

(* fs.existsSync(filePath) for the i-th pattern *)
ExistsSync(project, i) == i <= Len(project.files) /\ project.files[i].exists

(* the loop of detectRoutes from the i-th pattern on, and what follows it; a  *)
(* file whose content is <<>> makes readFileSync throw, which the loop skips  *)
RECURSIVE detectRoutesFrom(_, _)
detectRoutesFrom(project, i) ==
  IF i > Len(ROUTER_FILE_PATTERNS)
  THEN LET nextRoutes == parseNextJsPages(project)
       IN IF Len(nextRoutes) > 0
          THEN [type |-> "file-pattern", routes |-> nextRoutes,
                configFile |-> Some("pages/ or app/")]
          ELSE [type |-> "none", routes |-> <<>>, configFile |-> None]
  ELSE IF ExistsSync(project, i) /\ IsSome(project.files[i].content)
       THEN LET content == Get(project.files[i].content)
                browserRoutes == parseCreateBrowserRouter(content)
                jsxRoutes == parseRoutesJSX(content)
            IN IF Len(browserRoutes) > 0
               THEN [type |-> "createBrowserRouter", routes |-> browserRoutes,
                     configFile |-> Some(ROUTER_FILE_PATTERNS[i])]
               ELSE IF Len(jsxRoutes) > 0
               THEN [type |-> "Routes", routes |-> jsxRoutes,
                     configFile |-> Some(ROUTER_FILE_PATTERNS[i])]
               ELSE detectRoutesFrom(project, i + 1)
       ELSE detectRoutesFrom(project, i + 1)

detectRoutes(project) == detectRoutesFrom(project, 1)

(* what the extractors find in a file: nothing, routes of a router-construction *)
(* call, routes of <Route> markup, or both                                     *)
Contents ==
  { [browserRoutes |-> b, jsxRoutes |-> j] :
      b \in {<<>>, <<[path |-> "/b", componentName |-> "B"]>>},
      j \in {<<>>, <<[path |-> "/j", componentName |-> "J"]>>} }

(* a conventional location: no file, a file that cannot be read, a file *)
Files ==
  {[exists |-> FALSE, content |-> None], [exists |-> TRUE, content |-> None]} \cup
  {[exists |-> TRUE, content |-> Some(c)] : c \in Contents}

Projects(maxFiles) ==
  {[files |-> f, nextRoutes |-> n] :
     f \in [1..maxFiles -> Files], n \in {<<>>, <<[path |-> "/", componentName |-> "Index"]>>}}

InitDetect ==
  /\ input \in Projects(MaxFiles)
  /\ output = <<>>
  /\ phase = "project"
  /\ state = DEFAULT_STATE
  /\ storage = None
  /\ writes = <<>>
  /\ defaultChecklists = <<>>
  /\ savedFingerprint = None
  /\ now = 1
  /\ nOps = 0
  /\ lastOp = [op |-> "none", active |-> FALSE]

DetectRoutes ==
  /\ phase = "project"
  /\ output' = <<detectRoutes(input)>>
  /\ phase' = "detected"
  /\ UNCHANGED <<input, state, storage, writes, defaultChecklists, savedFingerprint, now,
                 nOps, lastOp>>

SpecDetect == InitDetect /\ [][DetectRoutes]_vars

----------------------------------------------------------------------------
(* The CLI's router parser: directory-convention scanning. A directory is the *)
(* sequence of its entries as readdirSync lists them; an entry is a file      *)
(* (name without extension, and extension) or a directory with its entries.   *)

MaxDepth == 2

StartsWith(str, c) == str # <<>> /\ str[1] = c

EndsWith(str, c) == str # <<>> /\ str[Len(str)] = c

(* str.slice(1, -1) *)
Inner(str) == SubSeq(str, 2, Len(str) - 1)

(* .replace(/[-_](.)/g, (_, c) => c.toUpperCase()) from position i on *)
RECURSIVE CamelFrom(_, _)
CamelFrom(str, i) ==
  IF i > Len(str) THEN <<>>
  ELSE IF str[i] \in {"-", "_"} /\ i < Len(str)
       THEN <<UpperChar(str[i + 1])>> \o CamelFrom(str, i + 2)
       ELSE <<str[i]>> \o CamelFrom(str, i + 1)

toPascalCase(str) ==
  LET camel == CamelFrom(str, 1)
  IN IF camel = <<>> THEN <<>> ELSE <<UpperChar(camel[1])>> \o Tail(camel)

(* the routes scanNextJsDirectory pushes for the entries items under basePath; *)
(* a directory that cannot be read pushes nothing                              *)
RECURSIVE scanNextJsDirectory(_, _)
scanNextJsDirectory(items, basePath) ==
  IF items = <<>> THEN <<>>
  ELSE LET item == Head(items)
           name == item.name
           routePath ==
             IF name = <<"i", "n", "d", "e", "x">>
             THEN (IF basePath # <<>> THEN basePath ELSE <<"/">>)
             ELSE IF StartsWith(name, "[") /\ EndsWith(name, "]")
                  THEN basePath \o <<"/", ":">> \o Inner(name)
                  ELSE basePath \o <<"/">> \o name
           pushed ==
             IF item.isDir
             THEN IF /\ ~StartsWith(name, "_")
                     /\ ~StartsWith(name, ".")
                     /\ name # <<"a", "p", "i">>
                     /\ item.readable
                  THEN scanNextJsDirectory(item.children, basePath \o <<"/">> \o name)
                  ELSE <<>>
             ELSE IF item.ext \in {".tsx", ".jsx", ".ts", ".js"} /\ ~StartsWith(name, "_")
                  THEN <<[path |-> IF routePath # <<>> THEN routePath ELSE <<"/">>,
                          componentName |->
                            IF name = <<"i", "n", "d", "e", "x">> THEN <<"I", "n", "d", "e", "x">>
                            ELSE toPascalCase(name)]>>
                  ELSE <<>>
       IN pushed \o scanNextJsDirectory(Tail(items), basePath)

(* a page.tsx, page.jsx, page.ts or page.js file exists in the directory *)
HasPageFile(dir) ==
  \E i \in 1..Len(dir.children) :
    /\ ~dir.children[i].isDir
    /\ dir.children[i].name = <<"p", "a", "g", "e">>
    /\ dir.children[i].ext \in {".tsx", ".jsx", ".ts", ".js"}

(* the routes scanNextJsAppDirectory pushes for the entries items under basePath *)
RECURSIVE scanNextJsAppDirectory(_, _)
scanNextJsAppDirectory(items, basePath) ==
  IF items = <<>> THEN <<>>
  ELSE LET item == Head(items)
           name == item.name
           isGroup == StartsWith(name, "(") /\ EndsWith(name, ")")
           routePath ==
             IF StartsWith(name, "[") /\ EndsWith(name, "]")
             THEN basePath \o <<"/", ":">> \o Inner(name)
             ELSE IF isGroup THEN basePath
             ELSE basePath \o <<"/">> \o name
           page ==
             IF HasPageFile(item)
             THEN <<[path |-> IF routePath # <<>> THEN routePath ELSE <<"/">>,
                     componentName |->
                       toPascalCase(SelectSeq(name,
                                              LAMBDA c : c \notin {"[", "]", "(", ")"}))]>>
             ELSE <<>>
           subPath == IF isGroup THEN basePath ELSE basePath \o <<"/">> \o name
           below ==
             IF ~StartsWith(name, "_") /\ ~StartsWith(name, ".") /\ item.readable
             THEN scanNextJsAppDirectory(item.children, subPath)
             ELSE <<>>
           pushed == IF item.isDir THEN page \o below ELSE <<>>
       IN pushed \o scanNextJsAppDirectory(Tail(items), basePath)

(* parseNextJsPages on a project root: pages and app are <<>> when the         *)
(* directory does not exist, <<entries>> when it does                          *)
parseNextJsPagesIn(root) ==
  (IF IsSome(root.pages) THEN scanNextJsDirectory(Get(root.pages), <<>>) ELSE <<>>)
    \o (IF IsSome(root.app) THEN scanNextJsAppDirectory(Get(root.app), <<>>) ELSE <<>>)

FileEntry(name, ext) ==
  [isDir |-> FALSE, name |-> name, ext |-> ext, readable |-> TRUE, children |-> <<>>]

DirEntry(name, readable, children) ==
  [isDir |-> TRUE, name |-> name, ext |-> "", readable |-> readable, children |-> children]

FileEntries ==
  { FileEntry(<<"i", "n", "d", "e", "x">>, ".tsx"),
    FileEntry(<<"p", "a", "g", "e">>, ".tsx"), FileEntry(<<"a">>, ".tsx"),
    FileEntry(<<"[", "i", "]">>, ".tsx"), FileEntry(<<"a">>, ".css") }

DirNames == { <<"b">>, <<"[", "i", "]">>, <<"(", "b", ")">>, <<"_", "b">> }

(* the listings of a directory over the entries S: empty, one entry, or a page *)
(* file and a sub-directory                                                    *)
Listings(S) ==
  {<<>>} \cup {<<e>> : e \in S} \cup
  {<<FileEntry(<<"p", "a", "g", "e">>, ".tsx"), e>> : e \in {x \in S : x.isDir}}

(* the entries nested at most depth directories deep *)
RECURSIVE Entries(_)
Entries(depth) ==
  IF depth = 0 THEN FileEntries
  ELSE FileEntries \cup {DirEntry(<<"b">>, FALSE, <<>>)} \cup
       {DirEntry(n, TRUE, l) : n \in DirNames, l \in Listings(Entries(depth - 1))}

ProjectRoots(depth) ==
  {[pages |-> Some(l), app |-> None] : l \in Listings(Entries(depth))} \cup
  {[pages |-> None, app |-> Some(l)] : l \in Listings(Entries(depth))} \cup
  {[pages |-> Some(l), app |-> Some(l)] : l \in Listings(Entries(0))}

InitScan ==
  /\ input \in ProjectRoots(MaxDepth)
  /\ output = <<>>
  /\ phase = "root"
  /\ state = DEFAULT_STATE
  /\ storage = None
  /\ writes = <<>>
  /\ defaultChecklists = <<>>
  /\ savedFingerprint = None
  /\ now = 1
  /\ nOps = 0
  /\ lastOp = [op |-> "none", active |-> FALSE]

ParseNextJsPages ==
  /\ phase = "root"
  /\ output' = <<parseNextJsPagesIn(input)>>
  /\ phase' = "scanned"
  /\ UNCHANGED <<input, state, storage, writes, defaultChecklists, savedFingerprint, now,
                 nOps, lastOp>>

SpecScan == InitScan /\ [][ParseNextJsPages]_vars

----------------------------------------------------------------------------
(* The CLI's JSX parser: test suggestions from a component analysis. A test  *)
(* is its template text with the interpolated name (and option count) apart. *)

MaxInputs == 2

Test(text, arg) == [text |-> text, arg |-> arg, count |-> 0]

(* a || b for optional strings: the first that is present and not empty *)
OrElse(a, b) == IF TruthyStr(a) THEN a ELSE b

LongLabel == "Save the current draft and continue"

(* label.substring(0, 30) *)
Substring30(label) ==
  IF label = LongLabel THEN "Save the current draft and con" ELSE label

RECURSIVE ButtonTests(_)
ButtonTests(buttons) ==
  IF buttons = <<>> THEN <<>>
  ELSE LET btn == Head(buttons)
           label == Substring30(btn.label)
       IN (IF btn.label # ""
           THEN <<Test("button is clickable and functional", label)>>
                  \o (IF btn.label \in {"Save", LongLabel}
                      THEN <<Test("button submits data correctly", label)>> ELSE <<>>)
                  \o (IF btn.label \in {"Delete"}
                      THEN <<Test("button shows confirmation before action", label)>>
                      ELSE <<>>)
                  \o (IF btn.label \in {"Cancel"}
                      THEN <<Test("button dismisses/closes correctly", label)>> ELSE <<>>)
           ELSE <<>>) \o ButtonTests(Tail(buttons))

RECURSIVE InputTests(_)
InputTests(inputs) ==
  IF inputs = <<>> THEN <<>>
  ELSE LET inp == Head(inputs)
           fieldName ==
             OrElse(inp.label, OrElse(inp.name, OrElse(inp.placeholder, Some(inp.type))))
       IN (IF TruthyStr(fieldName) /\ fieldName # Some("text")
           THEN <<Test("field accepts valid input", Get(fieldName))>>
                  \o (IF inp.type = "email"
                      THEN <<Test("validates email format", Get(fieldName))>> ELSE <<>>)
                  \o (IF inp.type = "password"
                      THEN <<Test("masks password input", Get(fieldName))>> ELSE <<>>)
                  \o (IF inp.type = "number"
                      THEN <<Test("accepts only numeric values", Get(fieldName))>>
                      ELSE <<>>)
                  \o (IF inp.type = "tel"
                      THEN <<Test("validates phone number format", Get(fieldName))>>
                      ELSE <<>>)
                  \o (IF inp.required
                      THEN <<Test("shows required field error when empty", Get(fieldName))>>
                      ELSE <<>>)
           ELSE <<>>) \o InputTests(Tail(inputs))

RECURSIVE SelectTests(_)
SelectTests(selects) ==
  IF selects = <<>> THEN <<>>
  ELSE LET select == Head(selects)
           name == Get(OrElse(select.label, OrElse(select.name, Some("dropdown"))))
       IN <<IF Len(select.options) > 0
            THEN [text |-> "dropdown shows options", arg |-> name,
                  count |-> Len(select.options)]
            ELSE Test("dropdown displays available options", name)>>
            \o SelectTests(Tail(selects))

RECURSIVE ModalTests(_)
ModalTests(modals) ==
  IF modals = <<>> THEN <<>>
  ELSE LET name == Get(OrElse(Head(modals).name, Some("Modal")))
       IN <<Test("opens when triggered", name), Test("closes when dismissed", name)>>
            \o ModalTests(Tail(modals))

RECURSIVE LinkTests(_)
LinkTests(links) ==
  IF links = <<>> THEN <<>>
  ELSE (IF Head(links).text # ""
        THEN <<Test("link navigates to correct destination", Head(links).text)>>
        ELSE <<>>) \o LinkTests(Tail(links))

(* [...new Set(tests)]: the first occurrence of each test, in order *)
RECURSIVE Unique(_)
Unique(tests) ==
  IF tests = <<>> THEN <<>>
  ELSE LET front == SubSeq(tests, 1, Len(tests) - 1)
           last == tests[Len(tests)]
       IN IF \E i \in 1..Len(front) : front[i] = last
          THEN Unique(front) ELSE Append(Unique(front), last)

generateSpecificTests(analysis) ==
  Unique(
    <<Test("Screen loads without errors", "")>>
    \o ButtonTests(analysis.buttons)
    \o InputTests(analysis.inputs)
    \o SelectTests(analysis.selects)
    \o (IF Len(analysis.forms) > 0
        THEN <<Test("Form validates required fields before submission", ""),
               Test("Form shows appropriate error messages for invalid input", ""),
               Test("Form submits successfully with valid data", "")>>
        ELSE <<>>)
    \o ModalTests(analysis.modals)
    \o (IF Len(analysis.links) > 0
        THEN LinkTests(SubSeq(analysis.links, 1,
                              IF Len(analysis.links) < 3 THEN Len(analysis.links) ELSE 3))
        ELSE <<>>)
    \o (IF analysis.tables
        THEN <<Test("Table/list displays data correctly", ""),
               Test("Table rows are properly formatted", "")>>
        ELSE <<>>)
    \o (IF analysis.pagination
        THEN <<Test("Pagination controls are visible", ""),
               Test("Next/Previous page buttons work correctly", "")>>
        ELSE <<>>)
    \o (IF analysis.search
        THEN <<Test("Search input accepts text", ""),
               Test("Search filters results correctly", "")>>
        ELSE <<>>)
    \o (IF analysis.dataFetching
        THEN <<Test("Data loads successfully from API", "")>>
               \o (IF analysis.loadingState
                   THEN <<Test("Loading indicator displays while fetching", "")>>
                   ELSE <<>>)
               \o (IF analysis.errorState
                   THEN <<Test("Error state displays when API fails", "")>> ELSE <<>>)
               \o (IF analysis.emptyState
                   THEN <<Test("Empty state displays when no data", "")>> ELSE <<>>)
        ELSE <<>>))

(* the inputs an analysis can hold: named by a label, a name, a placeholder or *)
(* nothing, of each type, required or not                                      *)
ExtractedInputs ==
  {[label |-> n[1], name |-> n[2], placeholder |-> n[3], type |-> t, required |-> r] :
     n \in { <<Some("L"), Some("n"), None>>, <<None, Some("n"), Some("p")>>,
             <<None, None, Some("p")>>, <<None, None, None>> },
     t \in {"text", "email", "password", "number", "tel"}, r \in BOOLEAN}

(* the rest of an analysis: nothing found, or every kind of element found *)
Analyses(inputs) ==
  { [buttons |-> <<>>, inputs |-> inputs, selects |-> <<>>, links |-> <<>>,
     modals |-> <<>>, forms |-> <<>>, tables |-> FALSE, pagination |-> FALSE,
     search |-> FALSE, dataFetching |-> FALSE, loadingState |-> FALSE,
     errorState |-> FALSE, emptyState |-> FALSE],
    [buttons |-> <<[label |-> "Save"], [label |-> "Delete"], [label |-> "Cancel"],
                   [label |-> LongLabel], [label |-> "Save"], [label |-> ""]>>,
     inputs |-> inputs,
     selects |-> <<[label |-> None, name |-> None, options |-> <<>>],
                   [label |-> Some("S"), name |-> Some("s"), options |-> <<"x", "y">>]>>,
     links |-> <<[to |-> "/a", text |-> "A"], [to |-> "/b", text |-> ""],
                 [to |-> "/c", text |-> "C"], [to |-> "/d", text |-> "D"]>>,
     modals |-> <<[name |-> Some("M")], [name |-> None]>>,
     forms |-> <<[fields |-> <<>>]>>, tables |-> TRUE, pagination |-> TRUE,
     search |-> TRUE, dataFetching |-> TRUE, loadingState |-> TRUE,
     errorState |-> FALSE, emptyState |-> TRUE] }

InitTests ==
  /\ input \in UNION {Analyses(i) : i \in SeqsUpTo(ExtractedInputs, MaxInputs)}
  /\ output = <<>>
  /\ phase = "analysis"
  /\ state = DEFAULT_STATE
  /\ storage = None
  /\ writes = <<>>
  /\ defaultChecklists = <<>>
  /\ savedFingerprint = None
  /\ now = 1
  /\ nOps = 0
  /\ lastOp = [op |-> "none", active |-> FALSE]

GenerateSpecificTests ==
  /\ phase = "analysis"
  /\ output' = <<generateSpecificTests(input)>>
  /\ phase' = "generated"
  /\ UNCHANGED <<input, state, storage, writes, defaultChecklists, savedFingerprint, now,
                 nOps, lastOp>>

SpecTests == InitTests /\ [][GenerateSpecificTests]_vars

----------------------------------------------------------------------------
(* The Markdown report, as the document's blocks in order: the title, the  *)
(* fixed body line, the session header, the summary, one section per       *)
(* screen, one per session bug, and the session notes.                     *)

(* new Date(t).toLocaleString() *)
ToLocaleString(t) == [text |-> "date", at |-> t]

StatusIcon(status) ==
  CASE status = "passed" -> "check"
    [] status = "failed" -> "cross"
    [] status = "skipped" -> "skip"
    [] OTHER -> "box"

(* bug.severity.toUpperCase() *)
SeverityToUpperCase(severity) ==
  CASE severity = "critical" -> "CRITICAL"
    [] severity = "high" -> "HIGH"
    [] severity = "medium" -> "MEDIUM"
    [] severity = "low" -> "LOW"

NoActiveSessionReport ==
  [title |-> "# POLI Test Report", body |-> "No active test session.", header |-> None,
   summary |-> None, screens |-> <<>>, bugs |-> <<>>, notes |-> None]

SessionReport(session, checklists, bugs) ==
  LET sessionBugs ==
        SelectSeq(bugs, LAMBDA b : \E i \in 1..Len(session.bugsFound) :
                                     session.bugsFound[i] = b.id)
  IN [title |-> "# POLI Test Report",
      body |-> "",
      header |-> Some([name |-> session.name, tester |-> session.tester,
                       started |-> ToLocaleString(session.startedAt),
                       completed |-> IF TruthyNum(session.completedAt)
                                     THEN ToLocaleString(Get(session.completedAt))
                                     ELSE [text |-> "In Progress", at |-> 0]]),
      summary |-> Some([total |-> session.totalTests, passed |-> session.passedTests,
                        failed |-> session.failedTests, skipped |-> session.skippedTests,
                        bugs |-> Len(sessionBugs)]),
      screens |-> [ci \in 1..Len(checklists) |-> LET checklist == checklists[ci] IN
                    [screen |-> checklist.screen,
                     items |-> [ii \in 1..Len(checklist.items) |->
                                 LET item == checklist.items[ii] IN
                                   [icon |-> StatusIcon(item.status),
                                    description |-> item.description,
                                    notes |-> IF TruthyStr(item.notes)
                                              THEN item.notes ELSE None]]]],
      bugs |-> [bi \in 1..Len(sessionBugs) |->
                 [index |-> bi, title |-> sessionBugs[bi].title,
                  severity |-> SeverityToUpperCase(sessionBugs[bi].severity),
                  status |-> sessionBugs[bi].status]],
      notes |-> IF TruthyStr(session.notes) THEN session.notes ELSE None]

(* generateMarkdownReport that falls back to the last completed session *)
generateMarkdownReport_LastSession(st) ==
  IF IsSome(st.currentSession)
  THEN SessionReport(Get(st.currentSession), st.checklists, st.bugs)
  ELSE IF st.testSessions # <<>>
       THEN SessionReport(st.testSessions[Len(st.testSessions)], st.checklists, st.bugs)
       ELSE NoActiveSessionReport

generateMarkdownReport(st) ==
  IF ~IsSome(st.currentSession) THEN NoActiveSessionReport
  ELSE SessionReport(Get(st.currentSession), st.checklists, st.bugs)

----------------------------------------------------------------------------
(* The provider's scheduling. A handler's setState call only queues its    *)
(* updater; the next render runs the queued updaters in order and commits  *)
(* the result; the auto-save effect, which depends on the state, runs      *)
(* after a commit that changed it and before the next render. input is the *)
(* updater queue, output the number of the committed state, writes the     *)
(* numbers of the states saved so far. The clock stands still: no updater  *)
(* reads it before the render that runs it.                                *)

MaxQueue == 2

(* the updaters the handlers queue *)
Updaters ==
  { [op |-> "togglePanel", notes |-> None],
    [op |-> "reportBug", notes |-> None],
    [op |-> "startTestSession", notes |-> None],
    [op |-> "completeTestSession", notes |-> Some("n")] }

RunUpdater(prev, u, t) ==
  CASE u.op = "togglePanel" -> togglePanel(prev)
    [] u.op = "reportBug" -> reportBug(prev, CHOOSE bug \in BugInputs : TRUE, t)
    [] u.op = "startTestSession" -> startTestSession(prev, "s", "u", t)
    [] u.op = "completeTestSession" -> completeTestSession(prev, u.notes, t)

RECURSIVE RunQueue(_, _, _)
RunQueue(prev, queue, t) ==
  IF queue = <<>> THEN prev ELSE RunQueue(RunUpdater(prev, Head(queue), t), Tail(queue), t)

(* whether the state object after the queue is another one than before *)
RECURSIVE QueueChanges(_, _, _)
QueueChanges(prev, queue, t) ==
  /\ queue # <<>>
  /\ \/ ~(Head(queue).op = "completeTestSession" /\ ~IsSome(prev.currentSession))
     \/ QueueChanges(RunUpdater(prev, Head(queue), t), Tail(queue), t)

(* an effect whose dependencies leave out the state *)
EffectAfterCommit_KeyOnly(changed) == "idle"

(* useEffect(..., [state, storageKey]) *)
EffectAfterCommit(changed) == IF changed THEN "committed" ELSE "idle"

InitAuto ==
  /\ defaultChecklists \in DefaultDocs
  /\ state = [DEFAULT_STATE EXCEPT !.checklists = defaultChecklists]
  /\ storage = None
  /\ savedFingerprint = Some(generateChecklistFingerprint(defaultChecklists))
  /\ phase = "committed"
  /\ input = <<>>
  /\ output = <<0>>
  /\ writes = <<>>
  /\ now = 1
  /\ nOps = 0
  /\ lastOp = [op |-> "init", active |-> FALSE]

(* an event handler calls a store operation *)
SetState ==
  /\ nOps < MaxOps
  /\ Len(input) < MaxQueue
  /\ \E u \in Updaters : input' = Append(input, u)
  /\ nOps' = nOps + 1
  /\ UNCHANGED <<state, storage, writes, output, phase, now, lastOp, defaultChecklists,
                 savedFingerprint>>

Render ==
  /\ phase = "idle"
  /\ input # <<>>
  /\ state' = RunQueue(state, input, now)
  /\ input' = <<>>
  /\ phase' = EffectAfterCommit(QueueChanges(state, input, now))
  /\ output' = <<IF QueueChanges(state, input, now) THEN output[1] + 1 ELSE output[1]>>
  /\ lastOp' = [op |-> "render", active |-> IsSome(state.currentSession)]
  /\ UNCHANGED <<storage, writes, now, nOps, defaultChecklists, savedFingerprint>>

AutoSave ==
  /\ phase = "committed"
  /\ storage' = saveQAState(state)
  /\ writes' = Append(writes, output[1])
  /\ phase' = "idle"
  /\ lastOp' = [op |-> "saveQAState", active |-> IsSome(state.currentSession)]
  /\ UNCHANGED <<state, input, output, now, nOps, defaultChecklists, savedFingerprint>>

NextAuto ==
  \/ SetState
  \/ Render
  \/ AutoSave

(* React renders after a queued update and runs a commit's effects *)
SpecAuto ==
  InitAuto /\ [][NextAuto]_vars /\ WF_vars(Render) /\ WF_vars(AutoSave)

----------------------------------------------------------------------------
(* The CLI's screen detection: screens from the detected routes and from the *)
(* files that match the screen file patterns, then the checklist file's item *)
(* ids. A file is its directory and its basename without the extension; the  *)
(* tests suggested for a route's component or a file are their number.       *)

MaxScreens == 2

LowerOf(c) == IF IsUpper(c) THEN LowerLetters[CHOOSE i \in 1..26 : UpperLetters[i] = c] ELSE c

(* .toLowerCase() *)
ToLower(str) == [i \in 1..Len(str) |-> LowerOf(str[i])]

HasSuffix(str, suffix) ==
  /\ Len(suffix) <= Len(str)
  /\ SubSeq(str, Len(str) - Len(suffix) + 1, Len(str)) = suffix

(* the suffixes of /Page$|Screen$|View$|Calculator$|Calendar$/i *)
StrippedSuffixes ==
  { <<"P", "a", "g", "e">>, <<"S", "c", "r", "e", "e", "n">>, <<"V", "i", "e", "w">>,
    <<"C", "a", "l", "c", "u", "l", "a", "t", "o", "r">>,
    <<"C", "a", "l", "e", "n", "d", "a", "r">> }

(* .replace(/Page$|Screen$|View$|Calculator$|Calendar$/i, ''): no suffix ends *)
(* with another one, so at most one matches                                   *)
StripSuffix(basename) ==
  LET hits == {suffix \in StrippedSuffixes : HasSuffix(ToLower(basename), ToLower(suffix))}
  IN IF hits = {} THEN basename
     ELSE SubSeq(basename, 1, Len(basename) - Len(CHOOSE suffix \in hits : TRUE))

(* .replace(/([a-z])([A-Z])/g, '$1_$2') from position i on *)
RECURSIVE SnakeFrom(_, _)
SnakeFrom(str, i) ==
  IF i > Len(str) THEN <<>>
  ELSE IF i < Len(str) /\ IsLower(str[i]) /\ IsUpper(str[i + 1])
       THEN <<str[i], "_">> \o SnakeFrom(str, i + 1)
       ELSE <<str[i]>> \o SnakeFrom(str, i + 1)

extractComponentName(file) ==
  ReplaceAll(ToUpperCase(SnakeFrom(StripSuffix(file.base), 1)), "-", "_")

(* SCREEN_PATTERNS.some(p => p.test(normalizedPath)) *)
IsScreen(file) ==
  \/ \E suffix \in {<<"P", "a", "g", "e">>, <<"S", "c", "r", "e", "e", "n">>,
                     <<"V", "i", "e", "w">>} :
       HasSuffix(file.base, suffix)
  \/ file.dir \in {"pages", "screens", "views", "routes"}
  \/ /\ file.dir = "components"
     /\ \E suffix \in {<<"P", "a", "g", "e">>, <<"C", "a", "l", "c", "u", "l", "a", "t", "o", "r">>,
                        <<"C", "a", "l", "e", "n", "d", "a", "r">>} :
          HasSuffix(file.base, suffix)

Names(screens) == {screens[i].name : i \in 1..Len(screens)}

(* STEP 1: the screens of the detected routes, the first of each name *)
RECURSIVE RouteScreens(_, _)
RouteScreens(routes, screens) ==
  IF routes = <<>> THEN screens
  ELSE LET screenName == routePathToScreenName(Head(routes).path)
       IN RouteScreens(Tail(routes),
                       IF screenName \notin Names(screens)
                       THEN Append(screens, [name |-> screenName,
                                             suggestedTests |-> Head(routes).tests])
                       ELSE screens)

(* STEP 2: the screens of the matching files, those of a name seen left out *)
RECURSIVE FileScreens(_, _)
FileScreens(files, screens) ==
  IF files = <<>> THEN screens
  ELSE LET name == extractComponentName(Head(files))
       IN FileScreens(Tail(files),
                      IF IsScreen(Head(files)) /\ name \notin Names(screens)
                      THEN Append(screens, [name |-> name, suggestedTests |-> Head(files).tests])
                      ELSE screens)

detectScreens(project) == FileScreens(project.files, RouteScreens(project.routes, <<>>))

(* String(n).padStart(3, '0') for one-digit n *)
PadStart3(n) == <<"0", "0", <<"1", "2", "3", "4", "5", "6", "7", "8", "9">>[n]>>

(* the ids of generateChecklistFile's items, screen by screen *)
RECURSIVE generateChecklistFile(_)
generateChecklistFile(screens) ==
  IF screens = <<>> THEN <<>>
  ELSE [i \in 1..Head(screens).suggestedTests |->
          ToLower(Head(screens).name) \o <<"_">> \o PadStart3(i)]
         \o generateChecklistFile(Tail(screens))

(* routes a router configuration can hold, with the number of tests suggested *)
DetectedRoutes ==
  { [path |-> <<"/">>, tests |-> 1],
    [path |-> <<"/", "a">>, tests |-> 2],
    [path |-> <<"/", "a", "/", ":", "a">>, tests |-> 1],
    [path |-> <<"a", "-", "a">>, tests |-> 1] }

(* .tsx files of the source tree *)
SourceFiles ==
  { [dir |-> "components", base |-> <<"C", "a", "l", "e", "n", "d", "a", "r">>, tests |-> 2],
    [dir |-> "components", tests |-> 1,
     base |-> <<"E", "v", "e", "n", "t", "C", "a", "l", "e", "n", "d", "a", "r">>],
    [dir |-> "components", base |-> <<"B", "u", "t", "t", "o", "n">>, tests |-> 1],
    [dir |-> "src", base |-> <<"U", "s", "e", "r", "P", "a", "g", "e">>, tests |-> 2],
    [dir |-> "pages", tests |-> 1,
     base |-> <<"u", "s", "e", "r", "P", "r", "o", "f", "i", "l", "e">>],
    [dir |-> "pages", base |-> <<"H", "o", "m", "e">>, tests |-> 1],
    [dir |-> "pages", base |-> <<"a">>, tests |-> 1] }

ScreenProjects(maxScreens) ==
  {[routes |-> r, files |-> f] :
     r \in SeqsUpTo(DetectedRoutes, maxScreens), f \in SeqsUpTo(SourceFiles, maxScreens)}

InitScreens ==
  /\ input \in ScreenProjects(MaxScreens)
  /\ output = <<>>
  /\ phase = "project"
  /\ state = DEFAULT_STATE
  /\ storage = None
  /\ writes = <<>>
  /\ defaultChecklists = <<>>
  /\ savedFingerprint = None
  /\ now = 1
  /\ nOps = 0
  /\ lastOp = [op |-> "none", active |-> FALSE]

DetectScreens ==
  /\ phase = "project"
  /\ output' = <<detectScreens(input)>>
  /\ phase' = "screens"
  /\ UNCHANGED <<input, state, storage, writes, defaultChecklists, savedFingerprint, now,
                 nOps, lastOp>>

GenerateChecklistFile ==
  /\ phase = "screens"
  /\ output' = <<output[1], generateChecklistFile(output[1])>>
  /\ phase' = "generated"
  /\ UNCHANGED <<input, state, storage, writes, defaultChecklists, savedFingerprint, now,
                 nOps, lastOp>>

NextScreens ==
  \/ DetectScreens
  \/ GenerateChecklistFile

SpecScreens == InitScreens /\ [][NextScreens]_vars

----------------------------------------------------------------------------
(* Properties of the store *)

CurrentSession == Get(state.currentSession)

Active == IsSome(state.currentSession)

Last(s) == s[Len(s)]

Front(s) == SubSeq(s, 1, Len(s) - 1)

BugIds(bugs) == {bugs[i].id : i \in 1..Len(bugs)}

(* C1: with a session active, right after every updateTestStatus the session's *)
(* passed/failed/skipped counters equal the number of items with that status   *)
(* across all checklists, and totalTests equals the number of items.           *)
C1_CountersMatchItems ==
  (lastOp.op = "updateTestStatus" /\ Active) =>
    LET allTests == AllItems(state.checklists)
    IN /\ CurrentSession.totalTests = Len(allTests)
       /\ CurrentSession.passedTests = CountStatus(allTests, "passed")
       /\ CurrentSession.failedTests = CountStatus(allTests, "failed")
       /\ CurrentSession.skippedTests = CountStatus(allTests, "skipped")

(* an update during a session, after an item was added: three items, one passed *)
C1_Witness ==
  /\ lastOp.op = "updateTestStatus"
  /\ Active
  /\ CurrentSession.totalTests = 3
  /\ CurrentSession.passedTests = 1

(* C2: right after startTestSession every item is not_started without notes or *)
(* testedAt, and the current session is fresh: counters 0, no bugs, not        *)
(* completed, totalTests the number of items across all checklists.            *)
C2_StartResetsEverything ==
  lastOp.op = "startTestSession" =>
    LET allTests == AllItems(state.checklists)
    IN /\ \A i \in 1..Len(allTests) :
            /\ allTests[i].status = "not_started"
            /\ allTests[i].notes = None
            /\ allTests[i].testedAt = None
       /\ Active
       /\ CurrentSession.passedTests = 0
       /\ CurrentSession.failedTests = 0
       /\ CurrentSession.skippedTests = 0
       /\ CurrentSession.bugsFound = <<>>
       /\ CurrentSession.completedAt = None
       /\ CurrentSession.totalTests = Len(allTests)

(* a session started while another was active, over three items *)
C2_Witness ==
  /\ lastOp.op = "startTestSession"
  /\ lastOp.active
  /\ CurrentSession.totalTests = 3

(* C3: completeTestSession(notes) changes nothing when no session is active;   *)
(* otherwise it clears currentSession and appends to testSessions exactly the  *)
(* former current session with completedAt and notes set, leaving the earlier  *)
(* entries, checklists, bugs and isOpen as they were.                          *)
C3_CompleteMovesSession ==
  \A n \in NoteArgs :
    LET after == completeTestSession(state, n, now)
    IN IF ~Active THEN after = state
       ELSE /\ after.currentSession = None
            /\ Len(after.testSessions) = Len(state.testSessions) + 1
            /\ Front(after.testSessions) = state.testSessions
            /\ Last(after.testSessions) =
                 [CurrentSession EXCEPT !.completedAt = Some(now), !.notes = n]
            /\ after.checklists = state.checklists
            /\ after.bugs = state.bugs
            /\ after.isOpen = state.isOpen

(* a second session has just been completed with notes *)
C3_Witness ==
  /\ lastOp.op = "completeTestSession"
  /\ lastOp.active
  /\ ~Active
  /\ Len(state.testSessions) = 1
  /\ Last(state.testSessions).notes = Some("n")
  /\ IsSome(Last(state.testSessions).completedAt)

(* the session in slot b is the session in slot a, still current *)
SameSession(a, b) ==
  /\ IsSome(a)
  /\ IsSome(b)
  /\ Get(b).id = Get(a).id
  /\ Get(b).name = Get(a).name
  /\ Get(b).tester = Get(a).tester
  /\ Get(b).startedAt = Get(a).startedAt
  /\ Get(b).completedAt = None

(* the step moves the current session into testSessions *)
CompletedStep ==
  /\ lastOp'.op = "completeTestSession"
  /\ state'.currentSession = None
  /\ Len(state'.testSessions) = Len(state.testSessions) + 1
  /\ Front(state'.testSessions) = state.testSessions
  /\ Last(state'.testSessions).id = CurrentSession.id
  /\ Last(state'.testSessions).startedAt = CurrentSession.startedAt
  /\ Last(state'.testSessions).bugsFound = CurrentSession.bugsFound
  /\ IsSome(Last(state'.testSessions).completedAt)

(* the step drops the current session without recording it *)
DiscardedStep ==
  /\ \/ lastOp'.op = "startTestSession" /\ IsSome(state'.currentSession)
        /\ state'.testSessions = state.testSessions
     \/ lastOp'.op = "resetState" /\ state'.currentSession = None
        /\ state'.testSessions = <<>>

KeptStep ==
  /\ lastOp'.op \notin {"completeTestSession", "startTestSession", "resetState"}
  /\ SameSession(state.currentSession, state'.currentSession)

(* C4 as claimed: an active session leaves the current slot only through       *)
(* completeTestSession, which records it in testSessions; every other store    *)
(* operation keeps it current.                                                 *)
C4_OnlyCompleteEndsSession ==
  [][(Active /\ nOps' # nOps) => (CompletedStep \/ KeptStep)]_vars

(* C4 as amended: an active session leaves the current slot through            *)
(* completeTestSession, which records it in testSessions, or is discarded      *)
(* unrecorded by startTestSession (replaced by the new session) or by          *)
(* resetState; every other store operation keeps it current, and a session     *)
(* becomes current only through startTestSession.                              *)
C4_SessionLifecycle ==
  [][/\ (Active /\ nOps' # nOps) => (CompletedStep \/ DiscardedStep \/ KeptStep)
     /\ (~Active /\ IsSome(state'.currentSession)) => lastOp'.op = "startTestSession"]_vars

(* a session was started while another one was active, and nothing was recorded *)
C4_Witness ==
  /\ lastOp.op = "startTestSession"
  /\ lastOp.active
  /\ Active
  /\ state.testSessions = <<>>
  /\ nOps = 2

(* C7: updateBugStatus(bugId, status) sets the status of the bugs with that id, *)
(* stamps fixedAt with the current time when the new status is fixed and leaves *)
(* fixedAt as it was for every other status; other bugs and the rest of the     *)
(* state are unchanged.                                                         *)
C7_UpdateBugStatus ==
  \A bugId \in IdArgs, status \in BugStatus :
    LET after == updateBugStatus(state, bugId, status, now)
    IN /\ Len(after.bugs) = Len(state.bugs)
       /\ \A i \in 1..Len(state.bugs) :
            IF state.bugs[i].id = bugId
            THEN /\ after.bugs[i].status = status
                 /\ after.bugs[i].fixedAt =
                      (IF status = "fixed" THEN Some(now) ELSE state.bugs[i].fixedAt)
                 /\ after.bugs[i].id = state.bugs[i].id
                 /\ after.bugs[i].title = state.bugs[i].title
                 /\ after.bugs[i].severity = state.bugs[i].severity
                 /\ after.bugs[i].reportedAt = state.bugs[i].reportedAt
            ELSE after.bugs[i] = state.bugs[i]
       /\ after.checklists = state.checklists
       /\ after.currentSession = state.currentSession
       /\ after.testSessions = state.testSessions
       /\ after.isOpen = state.isOpen

(* a bug that was fixed and then reopened still carries its fixedAt *)
C7_Witness ==
  /\ lastOp.op = "updateBugStatus"
  /\ \E i \in 1..Len(state.bugs) :
       state.bugs[i].status = "open" /\ IsSome(state.bugs[i].fixedAt)

(* C8 as claimed: updateBugStatus(id, 'fixed') on a bug that is already fixed   *)
(* leaves its fixedAt at the first-set value.                                  *)
C8_FixedAtStampedOnce ==
  [][(lastOp'.op = "updateBugStatus" /\ nOps' # nOps) =>
       \A i \in 1..Len(state.bugs) :
         (state.bugs[i].status = "fixed" /\ state'.bugs[i].status = "fixed") =>
           state'.bugs[i].fixedAt = state.bugs[i].fixedAt]_vars

(* C9 as claimed: reportBug gives the new bug an id no bug in bugs has, so all  *)
(* ids in bugs stay pairwise distinct; the bug is appended at the end of bugs   *)
(* and its id is appended to bugsFound iff a session is active.                *)
C9_FreshBugId ==
  lastOp.op = "reportBug" =>
    /\ state.bugs # <<>>
    /\ \A i, j \in 1..Len(state.bugs) : state.bugs[i].id = state.bugs[j].id => i = j
    /\ IF lastOp.active
       THEN /\ Active
            /\ CurrentSession.bugsFound # <<>>
            /\ Last(CurrentSession.bugsFound) = Last(state.bugs).id
       ELSE ~Active

(* C10 as claimed: with no session active, reportBug followed by deleteBug of   *)
(* the id just assigned leaves bugs as it was before the two calls. The step    *)
(* below is the deleteBug: the state before it was reached by the reportBug,    *)
(* which appended the bug at the end, and the deleted id is that bug's id.      *)
C10_ReportDeleteRoundTrip ==
  [][(/\ lastOp.op = "reportBug"
      /\ ~lastOp.active
      /\ lastOp'.op = "deleteBug"
      /\ nOps' # nOps
      /\ Last(state.bugs).id \notin BugIds(state'.bugs)) =>
       state'.bugs = Front(state.bugs)]_vars

(* C11: after deleteBug(bugId) no bug has that id and the active session's      *)
(* bugsFound does not hold it; the other bugs and the other bugsFound entries   *)
(* keep their order, and checklists, testSessions, isOpen and every other       *)
(* field of the session (its counters among them) are unchanged.                *)
C11_DeleteBug ==
  \A bugId \in IdArgs :
    LET after == deleteBug(state, bugId)
    IN /\ bugId \notin BugIds(after.bugs)
       /\ after.bugs = SelectSeq(state.bugs, LAMBDA b : b.id # bugId)
       /\ IF Active
          THEN /\ IsSome(after.currentSession)
               /\ \A i \in 1..Len(Get(after.currentSession).bugsFound) :
                    Get(after.currentSession).bugsFound[i] # bugId
               /\ after.currentSession =
                    Some([CurrentSession EXCEPT
                            !.bugsFound = SelectSeq(@, LAMBDA id : id # bugId)])
          ELSE after.currentSession = None
       /\ after.checklists = state.checklists
       /\ after.testSessions = state.testSessions
       /\ after.isOpen = state.isOpen

(* the bug reported during the active session has just been deleted: it is in   *)
(* neither bugs nor bugsFound, and the session still counts its two tests       *)
C11_Witness ==
  /\ lastOp.op = "deleteBug"
  /\ lastOp.active
  /\ Active
  /\ nOps = 3
  /\ state.bugs = <<>>
  /\ CurrentSession.bugsFound = <<>>
  /\ CurrentSession.totalTests = 2

ItemIds(checklists) ==
  {AllItems(checklists)[i].id : i \in 1..Len(AllItems(checklists))}

SessionIds(sessions) == {sessions[i].id : i \in 1..Len(sessions)}

(* C12 as claimed: updateTestStatus with a testId that matches no item leaves   *)
(* the whole state as it was, session counters included, with or without an     *)
(* active session and whatever came before. The step below is an                *)
(* updateTestStatus after which no item carries a testedAt: a matched item      *)
(* would have been stamped, so the id matched nothing.                          *)
C12_UnknownTestIdNoOp ==
  [][(/\ lastOp'.op = "updateTestStatus"
      /\ nOps' # nOps
      /\ \A i \in 1..Len(AllItems(state'.checklists)) :
           AllItems(state'.checklists)[i].testedAt = None) =>
       state' = state]_vars

(* C13: removeTestItem, updateBugStatus, deleteBug and deleteSession with an id *)
(* that matches nothing leave the state as it was, and deleteSession with any   *)
(* id leaves currentSession as it was.                                          *)
C13_UnknownIdsNoOp ==
  /\ \A id \in TestIds \ ItemIds(state.checklists) :
       removeTestItem(state, id) = state
  /\ \A id \in IdArgs \ BugIds(state.bugs) :
       /\ deleteBug(state, id) = state
       /\ \A st \in BugStatus : updateBugStatus(state, id, st, now) = state
  /\ \A id \in IdArgs \ SessionIds(state.testSessions) :
       deleteSession(state, id) = state
  /\ \A id \in IdArgs :
       deleteSession(state, id).currentSession = state.currentSession

(* deleteSession ran while a session was active and no session was recorded: the *)
(* id matched nothing, and the session and the bug reported in it are still there *)
C13_Witness ==
  /\ lastOp.op = "deleteSession"
  /\ lastOp.active
  /\ Active
  /\ nOps = 3
  /\ state.testSessions = <<>>
  /\ Len(state.bugs) = 1
  /\ CurrentSession.bugsFound = <<Last(state.bugs).id>>

(* C14 as claimed: the item ids of the checklists, pairwise distinct at the      *)
(* start, stay pairwise distinct after any sequence of store operations.        *)
C14_UniqueItemIds ==
  \A i, j \in 1..Len(AllItems(state.checklists)) :
    AllItems(state.checklists)[i].id = AllItems(state.checklists)[j].id => i = j

----------------------------------------------------------------------------
(* Properties of initialization *)

(* the saved items with the id that carry a result: a status other than        *)
(* not_started, non-empty notes, or a testedAt                                 *)
History(savedItems, id) ==
  {j \in 1..Len(savedItems) :
     /\ savedItems[j].id = id
     /\ \/ savedItems[j].status # "not_started"
        \/ (savedItems[j].notes # None /\ savedItems[j].notes # Some(""))
        \/ (savedItems[j].testedAt # None /\ savedItems[j].testedAt # Some(0))}

MergedAsClaimed(saved, supplied, merged) ==
  /\ Len(merged) = Len(supplied)
  /\ \A c \in 1..Len(supplied) :
       /\ merged[c].screen = supplied[c].screen
       /\ Len(merged[c].items) = Len(supplied[c].items)
       /\ \A k \in 1..Len(supplied[c].items) :
            LET m == merged[c].items[k]
                d == supplied[c].items[k]
                savedItems == AllItems(saved)
                hist == History(savedItems, d.id)
            IN /\ m.id = d.id
               /\ m.screen = d.screen
               /\ m.description = d.description
               /\ IF hist = {} THEN m = d
                  ELSE \E j \in hist :
                         /\ \A h \in hist : h <= j
                         /\ m.status = savedItems[j].status
                         /\ m.notes = savedItems[j].notes
                         /\ m.testedAt = savedItems[j].testedAt

(* C5: mergeChecklists(saved, supplied) returns the supplied checklists and     *)
(* items in the supplied order with the supplied screen and description; an     *)
(* item whose id occurs in saved with a status other than not_started, with     *)
(* (non-empty) notes or with a testedAt takes status, notes and testedAt from   *)
(* that saved item (the last such one); every other item is returned unchanged. *)
C5_MergeKeepsResults ==
  phase = "unmounted" =>
    MergedAsClaimed(LoadedChecklists, defaultChecklists,
                    mergeChecklists(LoadedChecklists, defaultChecklists))

(* the provider mounted with t1 passed in the saved document and t1, t3         *)
(* supplied: t1 keeps passed under its new description, t3 is not_started       *)
C5_Witness ==
  /\ phase = "mounted"
  /\ state.checklists =
       <<[screen |-> "A",
          items |-> <<ItemOf("t1", "new", <<"passed", None, Some(1)>>),
                      ItemOf("t3", "new", <<"not_started", None, None>>)>>]>>

(* C6 as claimed: whenever the key holds a structurally valid document, the     *)
(* initial state's bugs, testSessions and currentSession are the persisted ones. *)
C6_SeededFromPersisted ==
  [][(phase = "unmounted" /\ phase' = "mounted" /\ IsSome(loadQAState(storage))) =>
       /\ state'.bugs = Get(loadQAState(storage)).bugs
       /\ state'.testSessions = Get(loadQAState(storage)).testSessions
       /\ state'.currentSession = Get(loadQAState(storage)).currentSession]_vars

(* C15: loadQAState always returns: null when the key holds nothing, when the   *)
(* text does not parse, when the parsed value has no boolean isOpen or one of   *)
(* testSessions, checklists, bugs is not an array; the parsed document as it is *)
(* otherwise.                                                                   *)
C15_LoadValidates ==
  LET loaded == loadQAState(storage)
  IN IF storage = None THEN loaded = None
     ELSE LET b == Get(storage)
          IN IF \/ ~b.parses
                \/ b.isOpen = None
                \/ b.testSessions = None
                \/ b.checklists = None
                \/ b.bugs = None
             THEN loaded = None
             ELSE /\ IsSome(loaded)
                  /\ <<Get(loaded).isOpen>> = b.isOpen
                  /\ Get(loaded).currentSession = b.currentSession
                  /\ <<Get(loaded).testSessions>> = b.testSessions
                  /\ <<Get(loaded).checklists>> = b.checklists
                  /\ <<Get(loaded).bugs>> = b.bugs

(* the provider mounted over a valid document: its bug, its recorded session    *)
(* and its current session were loaded                                          *)
C15_Witness ==
  /\ phase = "mounted"
  /\ lastOp.op = "QAProvider"
  /\ state.bugs = <<OldBug>>
  /\ state.testSessions = <<OldSession(1, Some(1))>>
  /\ state.currentSession = Some(OldSession(2, None))

----------------------------------------------------------------------------
(* Properties of saving *)

(* kept holds the (at most) KeepSessions entries of all that started last, in  *)
(* descending startedAt order                                                  *)
MostRecent(all, kept) ==
  /\ Len(kept) = (IF Len(all) < KeepSessions THEN Len(all) ELSE KeepSessions)
  /\ \A i, j \in 1..Len(kept) : i < j => kept[i].startedAt >= kept[j].startedAt
  /\ \A i, j \in 1..Len(kept) : kept[i] = kept[j] => i = j
  /\ \A i \in 1..Len(kept) : \E k \in 1..Len(all) : all[k] = kept[i]
  /\ \A k \in 1..Len(all) :
       (\A i \in 1..Len(kept) : kept[i] # all[k]) =>
         \A i \in 1..Len(kept) : kept[i].startedAt >= all[k].startedAt

(* C16: saveQAState always completes; its first write is the serialized state; *)
(* when that write raises quota-exceeded there is exactly one more write, of   *)
(* the state with testSessions cut down to the (at most) 10 entries with the   *)
(* greatest startedAt in descending order and every other field as it is,      *)
(* whether or not that write succeeds; any other failure causes no retry.      *)
C16_QuotaRetry ==
  phase = "saved" =>
    /\ Len(writes) \in {1, 2}
    /\ writes[1].doc = Serialize(state)
    /\ IF writes[1].result = "quota"
       THEN /\ Len(writes) = 2
            /\ IsSome(writes[2].doc.testSessions)
            /\ writes[2].doc =
                 [Serialize(state) EXCEPT !.testSessions = writes[2].doc.testSessions]
            /\ MostRecent(state.testSessions, Get(writes[2].doc.testSessions))
       ELSE Len(writes) = 1

(* eleven sessions, the oldest first in the list, were cut down to ten by a    *)
(* retry that succeeded                                                        *)
C16_Witness ==
  /\ phase = "saved"
  /\ Len(writes) = 2
  /\ writes[2].result = "ok"
  /\ Len(state.testSessions) = MaxSessions
  /\ state.testSessions[1].startedAt = 1
  /\ state.testSessions[2].startedAt = 2
  /\ Len(Get(Get(storage).testSessions)) = KeepSessions

----------------------------------------------------------------------------
(* Properties of the screen name derivation *)

(* C18 as claimed: deriving from an already derived name returns that name, for *)
(* every route path, those whose first segment is dynamic included.            *)
C18_Idempotent ==
  [][(phase = "derived" /\ phase' = "rederived") => output' = output]_vars

(* the segments of a path: the text between its "/" characters *)
RECURSIVE Segments(_)
Segments(str) ==
  IF ~Includes(str, "/") THEN <<str>>
  ELSE LET k == CHOOSE i \in 1..Len(str) :
                  str[i] = "/" /\ \A j \in 1..(i - 1) : str[j] # "/"
       IN <<SubSeq(str, 1, k - 1)>> \o Segments(SubSeq(str, k + 1, Len(str)))

RECURSIVE JoinSegments(_)
JoinSegments(segs) ==
  IF segs = <<>> THEN <<>>
  ELSE IF Len(segs) = 1 THEN segs[1]
  ELSE segs[1] \o <<"_">> \o JoinSegments(Tail(segs))

(* the name as the claim derives it: one leading "/" stripped, every segment    *)
(* that begins with ":" removed, the rest joined by "_" with "-" replaced by    *)
(* "_", upper-cased; HOME when that is empty, _DETAIL appended when the path    *)
(* holds a ":"                                                                  *)
NameAsClaimed(routePath) ==
  LET kept == SelectSeq(Segments(StripLeadingSlash(routePath)),
                        LAMBDA seg : seg = <<>> \/ Head(seg) # ":")
      name == ToUpperCase(ReplaceAll(JoinSegments(kept), "-", "_"))
  IN IF name = <<>> THEN HOME
     ELSE IF Includes(routePath, ":") THEN name \o DETAIL
     ELSE name

(* C19 as claimed: the derived name is the one the rules give, and it holds no  *)
(* ":", "/" or "-".                                                            *)
C19_DerivedName ==
  phase = "derived" =>
    /\ output[1] = NameAsClaimed(input)
    /\ \A i \in 1..Len(output[1]) : output[1][i] \notin {":", "/", "-"}

----------------------------------------------------------------------------
(* Properties of route detection *)

(* some file at a conventional location yields a router-construction route *)
AnyBrowserRoutes(project) ==
  \E i \in 1..Len(project.files) :
    /\ project.files[i].exists
    /\ IsSome(project.files[i].content)
    /\ Get(project.files[i].content).browserRoutes # <<>>

(* some file at a conventional location yields a <Route> markup route *)
AnyJsxRoutes(project) ==
  \E i \in 1..Len(project.files) :
    /\ project.files[i].exists
    /\ IsSome(project.files[i].content)
    /\ Get(project.files[i].content).jsxRoutes # <<>>

(* C20 as claimed: the strategies are tried in priority order over the whole    *)
(* file list: the kind is createBrowserRouter whenever some file yields a       *)
(* router-construction route, Routes only if none does, file-pattern only if    *)
(* neither kind of route is found in any file, none (with no routes) only if    *)
(* the directory scan finds nothing either.                                     *)
C20_StrategyPriority ==
  phase = "detected" =>
    LET result == output[1]
    IN /\ AnyBrowserRoutes(input) => result.type = "createBrowserRouter"
       /\ result.type = "Routes" => (~AnyBrowserRoutes(input) /\ AnyJsxRoutes(input))
       /\ result.type = "file-pattern" =>
            (~AnyBrowserRoutes(input) /\ ~AnyJsxRoutes(input) /\ input.nextRoutes # <<>>)
       /\ result.type = "none" =>
            /\ ~AnyBrowserRoutes(input)
            /\ ~AnyJsxRoutes(input)
            /\ input.nextRoutes = <<>>
            /\ result.routes = <<>>

----------------------------------------------------------------------------
(* Properties of directory-convention scanning *)

(* the directories below the entries items that hold a page file *)
RECURSIVE PageDirs(_)
PageDirs(items) ==
  IF items = <<>> THEN 0
  ELSE (IF Head(items).isDir
        THEN (IF HasPageFile(Head(items)) THEN 1 ELSE 0) + PageDirs(Head(items).children)
        ELSE 0) + PageDirs(Tail(items))

(* C21 as claimed: no route path produced by the directory scan holds "[",     *)
(* "]", "(" or ")": bracket segments at any depth have become ":" parameters    *)
(* and parenthesis directories contribute no segment; and the app tree yields   *)
(* routes only for directories that hold a page file.                          *)
C21_NoBracketsInPaths ==
  phase = "scanned" =>
    /\ \A r \in 1..Len(output[1]) :
         \A i \in 1..Len(output[1][r].path) :
           output[1][r].path[i] \notin {"[", "]", "(", ")"}
    /\ (input.pages = None /\ IsSome(input.app)) =>
         Len(output[1]) <= PageDirs(Get(input.app))

----------------------------------------------------------------------------
(* Properties of the test suggestions *)

(* the texts under which a test can name the input: its label, name,           *)
(* placeholder or type                                                         *)
NamesOf(inp) ==
  {Get(o) : o \in {inp.label, inp.name, inp.placeholder} \ {None}} \cup {inp.type}

HasTestFor(tests, text, inp) ==
  \E i \in 1..Len(tests) : tests[i].text = text /\ tests[i].arg \in NamesOf(inp)

(* C22 as claimed: the list has no duplicates and starts with the baseline      *)
(* test; every required input has a required-field-error test and every email,  *)
(* password, number or tel input its type-specific test, named or not.          *)
C22_InputTests ==
  phase = "generated" =>
    LET tests == output[1]
    IN /\ \A i, j \in 1..Len(tests) : tests[i] = tests[j] => i = j
       /\ tests # <<>>
       /\ tests[1] = Test("Screen loads without errors", "")
       /\ \A k \in 1..Len(input.inputs) :
            LET inp == input.inputs[k]
            IN /\ inp.required =>
                    HasTestFor(tests, "shows required field error when empty", inp)
               /\ inp.type = "email" => HasTestFor(tests, "validates email format", inp)
               /\ inp.type = "password" => HasTestFor(tests, "masks password input", inp)
               /\ inp.type = "number" =>
                    HasTestFor(tests, "accepts only numeric values", inp)
               /\ inp.type = "tel" =>
                    HasTestFor(tests, "validates phone number format", inp)

----------------------------------------------------------------------------
(* Properties of the report *)

(* C23: the report is the fixed "No active test session." document exactly   *)
(* when currentSession is null; completeTestSession leaves a state whose      *)
(* report is that document, and it stays that document under every operation  *)
(* but startTestSession; a rendered session header reads "In Progress".       *)
C23_ReportOfSession ==
  [][ /\ (generateMarkdownReport(state') = NoActiveSessionReport)
           <=> (state'.currentSession = None)
      /\ lastOp'.op = "completeTestSession" /\ nOps' # nOps =>
           generateMarkdownReport(state') = NoActiveSessionReport
      /\ (generateMarkdownReport(state) = NoActiveSessionReport
            /\ ~(lastOp'.op = "startTestSession" /\ nOps' # nOps)) =>
           generateMarkdownReport(state') = NoActiveSessionReport
      /\ IsSome(generateMarkdownReport(state').header) =>
           Get(generateMarkdownReport(state').header).completed =
             [text |-> "In Progress", at |-> 0] ]_vars

(* a session with a bug was completed: the report no longer shows it *)
C23_Witness ==
  /\ lastOp.op = "completeTestSession"
  /\ lastOp.active
  /\ state.bugs # <<>>
  /\ Last(state.testSessions).bugsFound # <<>>
  /\ generateMarkdownReport(state) = NoActiveSessionReport

----------------------------------------------------------------------------
(* Properties of the auto-save *)

(* C24: every committed state change leaves a save pending, and a pending     *)
(* save is eventually run; when none is pending the last save was of the      *)
(* current state, so the blob is its serialization and loads back as it;      *)
(* saves are issued in commit order; a render runs the queued updaters one    *)
(* after the other, and nothing else changes the state.                       *)
C24_SavesFollowChanges ==
  /\ (phase = "committed") ~> (phase = "idle")
  /\ [](phase = "idle" =>
          /\ writes # <<>>
          /\ Last(writes) = output[1]
          /\ storage = saveQAState(state)
          /\ loadQAState(storage) = Some(state))
  /\ [](\A i, j \in 1..Len(writes) : i < j => writes[i] < writes[j])
  /\ [][ /\ state' # state => output'[1] = output[1] + 1 /\ phase' = "committed"
         /\ input # <<>> /\ input' = <<>> => state' = RunQueue(state, input, now) ]_vars

(* two updaters were batched into one commit and its save has run *)
C24_Witness ==
  /\ phase = "idle"
  /\ input = <<>>
  /\ nOps >= 2
  /\ Len(writes) = 2
  /\ Last(writes) = 1
  /\ state.bugs # <<>>
  /\ storage = saveQAState(state)

----------------------------------------------------------------------------
(* Properties of the initialization *)

(* C25: when the provider mounts over a valid document with checklists, the    *)
(* initial checklists are the reconciled ones if the fingerprint of the         *)
(* supplied checklists differs from the stored one (or none is stored) and the  *)
(* persisted ones, unchanged, if it is equal; the stored fingerprint becomes    *)
(* that of the supplied checklists at every mount.                              *)
C25_MergeOnFingerprintChange ==
  [][(phase = "unmounted" /\ phase' = "mounted") =>
       /\ savedFingerprint' = Some(generateChecklistFingerprint(defaultChecklists))
       /\ (IsSome(loadQAState(storage)) /\ LoadedChecklists # <<>>) =>
            state'.checklists =
              IF savedFingerprint = Some(generateChecklistFingerprint(defaultChecklists))
              THEN LoadedChecklists
              ELSE mergeChecklists(LoadedChecklists, defaultChecklists)]_vars

(* mounted with an unchanged fingerprint: the persisted checklists are kept,    *)
(* with an item the supplied document lacks and the old description of t1       *)
C25_Witness ==
  /\ phase = "mounted"
  /\ defaultChecklists =
       <<[screen |-> "A", items |-> <<ItemOf("t1", "new", <<"not_started", None, None>>)>>]>>
  /\ state.checklists =
       <<[screen |-> "A",
          items |-> <<ItemOf("t1", "old", <<"passed", None, Some(1)>>),
                      ItemOf("t2", "old", <<"failed", Some("n"), Some(1)>>)>>]>>

----------------------------------------------------------------------------
(* Properties of sessions, bugs and items *)

(* C26: the current session, when there is one, has no completedAt, and every  *)
(* recorded session has one: at most one session of the state is uncompleted.  *)
C26_OneUncompletedSession ==
  /\ Active => CurrentSession.completedAt = None
  /\ \A i \in 1..Len(state.testSessions) : IsSome(state.testSessions[i].completedAt)

(* a session was completed and another one started *)
C26_Witness ==
  /\ lastOp.op = "startTestSession"
  /\ Active
  /\ Len(state.testSessions) = 1
  /\ nOps = 3

(* C27: every id in the current session's bugsFound is the id of a bug in bugs. *)
C27_BugsFoundExist ==
  Active =>
    \A i \in 1..Len(CurrentSession.bugsFound) :
      CurrentSession.bugsFound[i] \in BugIds(state.bugs)

(* a bug of the session was deleted and another one is left *)
C27_Witness ==
  /\ lastOp.op = "deleteBug"
  /\ Active
  /\ Len(state.bugs) = 1
  /\ CurrentSession.bugsFound = <<state.bugs[1].id>>
  /\ nOps = 3

(* C28: addTestItem and removeTestItem leave currentSession, testSessions, bugs *)
(* and isOpen as they were; addTestItem appends the item to the one checklist   *)
(* of its screen, or a new one-item checklist after the others when no          *)
(* checklist has the screen; removeTestItem keeps every checklist entry, an     *)
(* emptied one too.                                                             *)
C28_AddRemoveFrame ==
  [][ /\ (nOps' # nOps /\ lastOp'.op \in {"addTestItem", "removeTestItem"}) =>
           /\ state'.currentSession = state.currentSession
           /\ state'.testSessions = state.testSessions
           /\ state'.bugs = state.bugs
           /\ state'.isOpen = state.isOpen
      /\ (nOps' # nOps /\ lastOp'.op = "addTestItem") =>
           \E id \in AddIds, sc \in Screens :
             LET item == NewItem(id, sc)
                 hits == {i \in 1..Len(state.checklists) : state.checklists[i].screen = sc}
             IN IF hits = {}
                THEN state'.checklists =
                       Append(state.checklists, [screen |-> sc, items |-> <<item>>])
                ELSE /\ Cardinality(hits) = 1
                     /\ Len(state'.checklists) = Len(state.checklists)
                     /\ \A i \in 1..Len(state.checklists) :
                          /\ state'.checklists[i].screen = state.checklists[i].screen
                          /\ state'.checklists[i].items =
                               IF i \in hits
                               THEN Append(state.checklists[i].items, item)
                               ELSE state.checklists[i].items
      /\ (nOps' # nOps /\ lastOp'.op = "removeTestItem") =>
           /\ Len(state'.checklists) = Len(state.checklists)
           /\ \E id \in TestIds :
                \A i \in 1..Len(state.checklists) :
                  /\ state'.checklists[i].screen = state.checklists[i].screen
                  /\ state'.checklists[i].items =
                       SelectSeq(state.checklists[i].items, LAMBDA item : item.id # id)
    ]_vars

(* during a session, the only item of a screen was removed: its checklist is   *)
(* still there, empty, and the session still counts the item                   *)
C28_Witness ==
  /\ lastOp.op = "removeTestItem"
  /\ Active
  /\ \E i \in 1..Len(state.checklists) : state.checklists[i].items = <<>>
  /\ CurrentSession.totalTests = Len(AllItems(state.checklists)) + 1

(* C29: updateTestStatus(testId, status, notes) sets status, notes and testedAt *)
(* on every item whose id is testId and leaves every other item as it was;      *)
(* called without notes it leaves those items without notes.                    *)
C29_UpdateReplacesNotes ==
  [][(nOps' # nOps /\ lastOp'.op = "updateTestStatus") =>
       /\ Len(state'.checklists) = Len(state.checklists)
       /\ \E id \in TestIds, a \in StatusArgs :
            \A c \in 1..Len(state.checklists) :
              /\ state'.checklists[c].screen = state.checklists[c].screen
              /\ Len(state'.checklists[c].items) = Len(state.checklists[c].items)
              /\ \A k \in 1..Len(state.checklists[c].items) :
                   LET item == state.checklists[c].items[k]
                   IN state'.checklists[c].items[k] =
                        IF item.id = id
                        THEN [item EXCEPT !.status = a[1], !.notes = a[2],
                                          !.testedAt = Some(now)]
                        ELSE item]_vars

(* an item failed with notes was then marked passed by a status button: its    *)
(* notes are gone                                                              *)
C29_Witness ==
  /\ lastOp.op = "updateTestStatus"
  /\ nOps = 2
  /\ \E i \in 1..Len(AllItems(state.checklists)) :
       /\ AllItems(state.checklists)[i].status = "passed"
       /\ AllItems(state.checklists)[i].notes = None
       /\ AllItems(state.checklists)[i].testedAt = Some(2)
  /\ \A i \in 1..Len(AllItems(state.checklists)) :
       AllItems(state.checklists)[i].testedAt # Some(1)

----------------------------------------------------------------------------
(* Properties of the screen detection *)

(* C30 as claimed: every detected screen has a name that is not empty, no two   *)
(* screens have the same name, and the generated item ids are pairwise distinct *)
(* with a screen part that is not empty.                                        *)
C30_ScreenNames ==
  /\ phase \in {"screens", "generated"} =>
       /\ \A i \in 1..Len(output[1]) : output[1][i].name # <<>>
       /\ \A i, j \in 1..Len(output[1]) :
            output[1][i].name = output[1][j].name => i = j
  /\ phase = "generated" =>
       /\ \A i \in 1..Len(output[2]) : Head(output[2][i]) # "_"
       /\ \A i, j \in 1..Len(output[2]) : output[2][i] = output[2][j] => i = j

====
